---------------------------- MODULE Spec2Model ----------------------------
(***************************************************************************)
(* Verification model of the Arica Toucan / Project Sentinel desktop audit *)
(* agents (src/desktop-agent): the five detectors, the snapshot assembler, *)
(* the create-then-upload transport and the two command-line entry points. *)
(*                                                                         *)
(* Text that the code inspects (tool output, account names, identifiers)   *)
(* is a sequence of one-character strings, so that substring tests, case   *)
(* folding, splitting and truncation are computed, not assumed.            *)
(***************************************************************************)
EXTENDS Integers, Sequences, FiniteSets, TLC

(***************************************************************************)
(* Bounds of the model                                                     *)
(***************************************************************************)
MaxPasswdLines == 2     \* lines of the account database
MaxIfaceAddrs == 3      \* addresses reported by the interface enumeration
MaxWmicLines == 2       \* data lines of the WMIC account listing
MaxRetriesArg == 4      \* largest max_retries passed to create_audit directly
MaxSubmits == 2         \* questionnaire submissions attempted in one session

(***************************************************************************)
(* Python string primitives over character sequences                       *)
(***************************************************************************)
UpperLetters == <<"A","B","C","D","E","F","G","H","I","J","K","L","M","N","O","P","Q","R","S","T","U","V","W","X","Y","Z">>
LowerLetters == <<"a","b","c","d","e","f","g","h","i","j","k","l","m","n","o","p","q","r","s","t","u","v","w","x","y","z">>

LowerChar(c) ==
    IF \E i \in 1..26 : UpperLetters[i] = c
    THEN LowerLetters[CHOOSE i \in 1..26 : UpperLetters[i] = c]
    ELSE c

UpperChar(c) ==
    IF \E i \in 1..26 : LowerLetters[i] = c
    THEN UpperLetters[CHOOSE i \in 1..26 : LowerLetters[i] = c]
    ELSE c

\* str.lower()
Lower(s) == [i \in 1..Len(s) |-> LowerChar(s[i])]

\* str.upper()
Upper(s) == [i \in 1..Len(s) |-> UpperChar(s[i])]

\* t in s
Contains(s, t) ==
    \E i \in 1..(Len(s) - Len(t) + 1) : SubSeq(s, i, i + Len(t) - 1) = t

\* s.startswith(t)
StartsWith(s, t) == Len(s) >= Len(t) /\ SubSeq(s, 1, Len(t)) = t

\* s[:n]
Truncate(s, n) == SubSeq(s, 1, IF Len(s) < n THEN Len(s) ELSE n)

IsSpace(c) == c \in {" ", "\t", "\r", "\n"}

RECURSIVE LStrip(_)
LStrip(s) == IF s # <<>> /\ IsSpace(Head(s)) THEN LStrip(Tail(s)) ELSE s

RECURSIVE RStrip(_)
RStrip(s) ==
    IF s # <<>> /\ IsSpace(s[Len(s)]) THEN RStrip(SubSeq(s, 1, Len(s) - 1)) ELSE s

\* str.strip()
Strip(s) == LStrip(RStrip(s))

\* str.split(): the maximal runs of non-whitespace characters, in order
RECURSIVE SplitFrom(_, _, _)
SplitFrom(s, cur, acc) ==
    IF s = <<>>
    THEN IF cur = <<>> THEN acc ELSE Append(acc, cur)
    ELSE IF IsSpace(Head(s))
         THEN SplitFrom(Tail(s), <<>>, IF cur = <<>> THEN acc ELSE Append(acc, cur))
         ELSE SplitFrom(Tail(s), Append(cur, Head(s)), acc)

Split(s) == SplitFrom(s, <<>>, <<>>)

\* str.split(sep) for a one-character separator: empty fields are kept
RECURSIVE SplitOnFrom(_, _, _, _)
SplitOnFrom(s, sep, cur, acc) ==
    IF s = <<>>
    THEN Append(acc, cur)
    ELSE IF Head(s) = sep
         THEN SplitOnFrom(Tail(s), sep, <<>>, Append(acc, cur))
         ELSE SplitOnFrom(Tail(s), sep, Append(cur, Head(s)), acc)

SplitOn(s, sep) == SplitOnFrom(s, sep, <<>>, <<>>)

Digits == <<"0","1","2","3","4","5","6","7","8","9">>

IsDigit(c) == \E i \in 1..10 : Digits[i] = c

DigitValue(c) == (CHOOSE i \in 1..10 : Digits[i] = c) - 1

RECURSIVE DecimalValue(_, _)
DecimalValue(s, acc) ==
    IF s = <<>> THEN acc ELSE DecimalValue(Tail(s), 10 * acc + DigitValue(Head(s)))

\* int(s) succeeds: optional surrounding whitespace, optional sign, digits
IsIntText(s) ==
    LET u == Strip(s)
        d == IF u # <<>> /\ Head(u) \in {"+", "-"} THEN Tail(u) ELSE u
    IN  d # <<>> /\ \A i \in 1..Len(d) : IsDigit(d[i])

\* int(s), defined where IsIntText(s)
IntOf(s) ==
    LET u == Strip(s)
    IN  IF Head(u) = "-" THEN 0 - DecimalValue(Tail(u), 0)
        ELSE IF Head(u) = "+" THEN DecimalValue(Tail(u), 0)
        ELSE DecimalValue(u, 0)

(***************************************************************************)
(* External probes.  A probe ends in "ok" with its output, in "error"      *)
(* (tool missing, non-zero exit, read failure) or in "timeout"; the code   *)
(* catches both failures with the same handler.                            *)
(***************************************************************************)
ProbeStatus == {"ok", "error", "timeout"}

Failures == {"error", "timeout"}

Probe(st, o) == [status |-> st, out |-> o]

NoProbe == Probe("error", <<>>)

ProbesOver(outs) ==
    {Probe("ok", o) : o \in outs} \cup {Probe(st, <<>>) : st \in Failures}

(***************************************************************************)
(* check_firewall_status                                                   *)
(***************************************************************************)
NetshOutputs == {<<"S","t","a","t","e"," ","O","N">>, <<"S","t","a","t","e"," ","O","F","F">>}

SocketfilterfwOutputs == {<<"F","i","r","e","w","a","l","l"," ","i","s"," ","e","n","a","b","l","e","d","."," ","(","S","t","a","t","e"," ","="," ","1",")">>, <<"F","i","r","e","w","a","l","l"," ","i","s"," ","d","i","s","a","b","l","e","d",".">>}

UfwOutputs == {<<"S","t","a","t","u","s",":"," ","a","c","t","i","v","e">>, <<"S","t","a","t","u","s",":"," ","i","n","a","c","t","i","v","e">>}

FirewallResult(en, st) == [firewallEnabled |-> en, firewallStatus |-> st]

\* a firewall taken to be on when netsh cannot be asked
check_firewall_status_assumed(system, host) ==
    IF system = "windows" THEN
        IF host.netsh.status = "ok"
        THEN IF Contains(Upper(host.netsh.out), <<"O","N">>)
             THEN FirewallResult(TRUE, "Windows Firewall Active")
             ELSE FirewallResult(FALSE, "Windows Firewall Disabled")
        ELSE FirewallResult(TRUE, "Unable to determine")
    ELSE IF system = "darwin" THEN
        IF host.socketfilterfw.status = "ok"
        THEN IF Contains(Lower(host.socketfilterfw.out), <<"e","n","a","b","l","e","d">>)
             THEN FirewallResult(TRUE, "macOS Firewall Enabled")
             ELSE FirewallResult(FALSE, "macOS Firewall Disabled")
        ELSE FirewallResult(FALSE, "Unable to determine")
    ELSE IF system = "linux" THEN
        IF host.ufw.status = "ok"
        THEN IF Contains(Lower(host.ufw.out), <<"a","c","t","i","v","e">>)
             THEN FirewallResult(TRUE, "UFW Firewall Active")
             ELSE FirewallResult(FALSE, "UFW Firewall Inactive")
        ELSE IF host.iptables.status = "ok"
             THEN FirewallResult(TRUE, "iptables configured")
             ELSE FirewallResult(FALSE, "No firewall detected")
    ELSE FirewallResult(FALSE, "Unknown")

check_firewall_status(system, host) ==
    IF system = "windows" THEN
        IF host.netsh.status = "ok"
        THEN IF Contains(Upper(host.netsh.out), <<"O","N">>)
             THEN FirewallResult(TRUE, "Windows Firewall Active")
             ELSE FirewallResult(FALSE, "Windows Firewall Disabled")
        ELSE FirewallResult(FALSE, "Unable to determine")
    ELSE IF system = "darwin" THEN
        IF host.socketfilterfw.status = "ok"
        THEN IF Contains(Lower(host.socketfilterfw.out), <<"e","n","a","b","l","e","d">>)
             THEN FirewallResult(TRUE, "macOS Firewall Enabled")
             ELSE FirewallResult(FALSE, "macOS Firewall Disabled")
        ELSE FirewallResult(FALSE, "Unable to determine")
    ELSE IF system = "linux" THEN
        IF host.ufw.status = "ok"
        THEN IF Contains(Lower(host.ufw.out), <<"a","c","t","i","v","e">>)
             THEN FirewallResult(TRUE, "UFW Firewall Active")
             ELSE FirewallResult(FALSE, "UFW Firewall Inactive")
        ELSE IF host.iptables.status = "ok"
             THEN FirewallResult(TRUE, "iptables configured")
             ELSE FirewallResult(FALSE, "No firewall detected")
    ELSE FirewallResult(FALSE, "Unknown")

\* the external commands check_firewall_status runs, in order
firewall_probes(system, host) ==
    IF system = "windows" THEN <<"netsh">>
    ELSE IF system = "darwin" THEN <<"socketfilterfw">>
    ELSE IF system = "linux" THEN
        IF host.ufw.status = "ok" THEN <<"ufw">> ELSE <<"ufw", "iptables">>
    ELSE <<>>

(***************************************************************************)
(* check_antivirus_status                                                  *)
(***************************************************************************)
\* an optional snapshot field: the key is missing, is null, or holds text
Missing == [tag |-> "missing", text |-> ""]
Null == [tag |-> "null", text |-> ""]
Text(s) == [tag |-> "text", text |-> s]

\* an optional key preset to the empty string by both scripts
UnsetFieldEmptyText(script) == Text("")

\* result = {...} of the script: sentinel_agent presets the optional key to None
UnsetField(script) == IF script = "sentinel" THEN Null ELSE Missing

\* status is the text f"{name} installed" of the matching tool
av_tools == <<[tool |-> "clamav", name |-> "ClamAV", status |-> "ClamAV installed"],
              [tool |-> "sophos", name |-> "Sophos", status |-> "Sophos installed"],
              [tool |-> "crowdstrike", name |-> "CrowdStrike Falcon",
               status |-> "CrowdStrike Falcon installed"]>>

AntivirusResult(inst, nm, st) ==
    [antivirusInstalled |-> inst, antivirusName |-> nm, antivirusStatus |-> st]

\* the for loop over av_tools from index i: the first tool whose `which` succeeds
RECURSIVE FirstInstalled(_, _)
FirstInstalled(which, i) ==
    IF i > Len(av_tools) THEN 0
    ELSE IF which[i] = "ok" THEN i
    ELSE FirstInstalled(which, i + 1)

\* a loop over av_tools that a failed `which` ends
check_antivirus_status_until_failure(script, system, host) ==
    IF system = "windows" THEN
        IF host.winreg.status = "ok"
        THEN IF host.winreg.value = 0
             THEN AntivirusResult(TRUE, Text("Windows Defender"), "Real-time protection enabled")
             ELSE AntivirusResult(FALSE, UnsetField(script), "Windows Defender disabled")
        ELSE AntivirusResult(FALSE, UnsetField(script), "Unable to determine antivirus status")
    ELSE IF system = "darwin" THEN
        AntivirusResult(TRUE, Text("XProtect (Built-in)"), "macOS built-in protection active")
    ELSE IF system = "linux" THEN
        IF host.which[1] = "ok"
        THEN AntivirusResult(TRUE, Text(av_tools[1].name), av_tools[1].status)
        ELSE AntivirusResult(FALSE, UnsetField(script), "No antivirus detected")
    ELSE AntivirusResult(FALSE, UnsetField(script), "Not detected")

check_antivirus_status(script, system, host) ==
    IF system = "windows" THEN
        IF host.winreg.status = "ok"
        THEN IF host.winreg.value = 0
             THEN AntivirusResult(TRUE, Text("Windows Defender"), "Real-time protection enabled")
             ELSE AntivirusResult(FALSE, UnsetField(script), "Windows Defender disabled")
        ELSE AntivirusResult(FALSE, UnsetField(script), "Unable to determine antivirus status")
    ELSE IF system = "darwin" THEN
        AntivirusResult(TRUE, Text("XProtect (Built-in)"), "macOS built-in protection active")
    ELSE IF system = "linux" THEN
        LET i == FirstInstalled(host.which, 1)
        IN  IF i > 0
            THEN AntivirusResult(TRUE, Text(av_tools[i].name), av_tools[i].status)
            ELSE AntivirusResult(FALSE, UnsetField(script), "No antivirus detected")
    ELSE AntivirusResult(FALSE, UnsetField(script), "Not detected")

\* the registry read and the `which` commands check_antivirus_status runs, in
\* order: the loop over av_tools breaks at the first tool found
antivirus_probes(system, host) ==
    IF system = "windows" THEN <<"winreg">>
    ELSE IF system = "linux" THEN
        LET i == FirstInstalled(host.which, 1)
            last == IF i > 0 THEN i ELSE Len(av_tools)
        IN  [k \in 1..last |-> av_tools[k].tool]
    ELSE <<>>

(***************************************************************************)
(* check_disk_encryption                                                   *)
(***************************************************************************)
ManageBdeOutputs == {<<"P","r","o","t","e","c","t","i","o","n"," ","O","n">>, <<"P","r","o","t","e","c","t","i","o","n"," ","O","f","f">>, <<"P","e","r","c","e","n","t","a","g","e"," ","E","n","c","r","y","p","t","e","d",":"," ","0","%">>}

FdesetupOutputs == {<<"F","i","l","e","V","a","u","l","t"," ","i","s"," ","O","n",".">>, <<"F","i","l","e","V","a","u","l","t"," ","i","s"," ","O","f","f",".">>}

LsblkOutputs == {<<"s","d","a"," ","d","i","s","k"," ","/">>, <<"l","u","k","s"," ","c","r","y","p","t"," ","/">>}

\* a result that explains itself the way the firewall and antivirus results do
EncryptionResultWithStatus(en, m) ==
    [diskEncryptionEnabled |-> en, diskEncryptionMethod |-> m,
     diskEncryptionStatus |-> IF en THEN "Encrypted"
                              ELSE "Unable to determine encryption status"]

EncryptionResult(en, m) ==
    [diskEncryptionEnabled |-> en, diskEncryptionMethod |-> m]

\* a disk whose block devices cannot be listed taken to be encrypted
check_disk_encryption_unlisted(script, system, host) ==
    IF system = "windows" THEN
        IF host.manage_bde.status = "ok"
           /\ (Contains(host.manage_bde.out, <<"P","r","o","t","e","c","t","i","o","n"," ","O","n">>)
               \/ Contains(host.manage_bde.out, <<"P","e","r","c","e","n","t","a","g","e"," ","E","n","c","r","y","p","t","e","d">>))
        THEN EncryptionResult(TRUE, Text("BitLocker"))
        ELSE EncryptionResult(FALSE, UnsetField(script))
    ELSE IF system = "darwin" THEN
        IF host.fdesetup.status = "ok" /\ Contains(host.fdesetup.out, <<"F","i","l","e","V","a","u","l","t"," ","i","s"," ","O","n">>)
        THEN EncryptionResult(TRUE, Text("FileVault"))
        ELSE EncryptionResult(FALSE, UnsetField(script))
    ELSE IF system = "linux" THEN
        IF host.lsblk.status # "ok" \/ Contains(host.lsblk.out, <<"c","r","y","p","t">>)
        THEN EncryptionResult(TRUE, Text("LUKS/dm-crypt"))
        ELSE EncryptionResult(FALSE, UnsetField(script))
    ELSE EncryptionResult(FALSE, UnsetField(script))

check_disk_encryption(script, system, host) ==
    IF system = "windows" THEN
        IF host.manage_bde.status = "ok"
           /\ (Contains(host.manage_bde.out, <<"P","r","o","t","e","c","t","i","o","n"," ","O","n">>)
               \/ Contains(host.manage_bde.out, <<"P","e","r","c","e","n","t","a","g","e"," ","E","n","c","r","y","p","t","e","d">>))
        THEN EncryptionResult(TRUE, Text("BitLocker"))
        ELSE EncryptionResult(FALSE, UnsetField(script))
    ELSE IF system = "darwin" THEN
        IF host.fdesetup.status = "ok" /\ Contains(host.fdesetup.out, <<"F","i","l","e","V","a","u","l","t"," ","i","s"," ","O","n">>)
        THEN EncryptionResult(TRUE, Text("FileVault"))
        ELSE EncryptionResult(FALSE, UnsetField(script))
    ELSE IF system = "linux" THEN
        IF host.lsblk.status = "ok" /\ Contains(host.lsblk.out, <<"c","r","y","p","t">>)
        THEN EncryptionResult(TRUE, Text("LUKS/dm-crypt"))
        ELSE EncryptionResult(FALSE, UnsetField(script))
    ELSE EncryptionResult(FALSE, UnsetField(script))

\* the external command check_disk_encryption runs
encryption_probes(system) ==
    IF system = "windows" THEN <<"manage-bde">>
    ELSE IF system = "darwin" THEN <<"fdesetup">>
    ELSE IF system = "linux" THEN <<"lsblk">>
    ELSE <<>>

(***************************************************************************)
(* get_user_accounts                                                       *)
(***************************************************************************)
WINDOWS_SYSTEM_ACCOUNTS ==
    {<<"a","d","m","i","n","i","s","t","r","a","t","o","r">>,
     <<"d","e","f","a","u","l","t","a","c","c","o","u","n","t">>,
     <<"g","u","e","s","t">>,
     <<"w","d","a","g","u","t","i","l","i","t","y","a","c","c","o","u","n","t">>,
     <<"d","e","f","a","u","l","t","u","s","e","r","0">>,
     <<"s","y","s","t","e","m">>,
     <<"l","o","c","a","l"," ","s","e","r","v","i","c","e">>,
     <<"n","e","t","w","o","r","k"," ","s","e","r","v","i","c","e">>,
     <<"k","r","b","t","g","t">>,
     <<"d","e","f","a","u","l","t","a","p","p","p","o","o","l">>,
     <<"a","s","p","n","e","t">>,
     <<"i","u","s","r">>,
     <<"i","w","a","m">>,
     <<"h","o","m","e","g","r","o","u","p">>,
     <<"m","s","s","q","l">>,
     <<"m","y","s","q","l">>,
     <<"p","o","s","t","g","r","e","s">>,
     <<"o","r","a","c","l","e">>,
     <<"s","s","h","d">>,
     <<"n","t"," ","a","u","t","h","o","r","i","t","y">>,
     <<"e","v","e","r","y","o","n","e">>,
     <<"a","u","t","h","e","n","t","i","c","a","t","e","d"," ","u","s","e","r","s">>,
     <<"u","s","e","r","s">>,
     <<"g","u","e","s","t","s">>,
     <<"p","o","w","e","r"," ","u","s","e","r","s">>,
     <<"b","a","c","k","u","p"," ","o","p","e","r","a","t","o","r","s">>,
     <<"r","e","p","l","i","c","a","t","o","r">>,
     <<"r","e","m","o","t","e"," ","d","e","s","k","t","o","p"," ","u","s","e","r","s">>,
     <<"n","e","t","w","o","r","k"," ","c","o","n","f","i","g","u","r","a","t","i","o","n"," ","o","p","e","r","a","t","o","r","s">>,
     <<"p","e","r","f","o","r","m","a","n","c","e"," ","m","o","n","i","t","o","r"," ","u","s","e","r","s">>,
     <<"p","e","r","f","o","r","m","a","n","c","e"," ","l","o","g"," ","u","s","e","r","s">>,
     <<"d","i","s","t","r","i","b","u","t","e","d"," ","c","o","m"," ","u","s","e","r","s">>,
     <<"i","i","s","_","i","u","s","r","s">>,
     <<"c","r","y","p","t","o","g","r","a","p","h","i","c"," ","o","p","e","r","a","t","o","r","s">>,
     <<"e","v","e","n","t"," ","l","o","g"," ","r","e","a","d","e","r","s">>,
     <<"c","e","r","t","i","f","i","c","a","t","e"," ","s","e","r","v","i","c","e"," ","d","c","o","m"," ","a","c","c","e","s","s">>,
     <<"r","d","p","-","t","c","p">>,
     <<"c","o","n","s","o","l","e">>,
     <<"h","e","l","p","a","s","s","i","s","t","a","n","t">>}

\* lastLogin of an account entry: key missing, None, or a timestamp
TimeMissing == [tag |-> "missing", at |-> 0]
TimeNull == [tag |-> "null", at |-> 0]
TimeAt(t) == [tag |-> "time", at |-> t]

UserEntry(name, admin, login) ==
    [username |-> name, isAdmin |-> admin, lastLogin |-> login]

\* lastLogin of a listed (non-fallback) account: arica_toucan_agent leaves the
\* key out, sentinel_agent sets it to None
ListedLogin(script) == IF script = "sentinel" THEN TimeNull ELSE TimeMissing

\* "\n".join(lines): the decoded output, of which lines is output.split('\n')
RECURSIVE JoinLines(_)
JoinLines(lines) ==
    IF lines = <<>> THEN <<>>
    ELSE IF Len(lines) = 1 THEN lines[1]
    ELSE lines[1] \o <<"\n">> \o JoinLines(Tail(lines))

IsBlank(line) == Strip(line) = <<>>

RECURSIVE DropLeadingBlank(_)
DropLeadingBlank(lines) ==
    IF lines # <<>> /\ IsBlank(Head(lines)) THEN DropLeadingBlank(Tail(lines)) ELSE lines

RECURSIVE DropTrailingBlank(_)
DropTrailingBlank(lines) ==
    IF lines # <<>> /\ IsBlank(lines[Len(lines)])
    THEN DropTrailingBlank(SubSeq(lines, 1, Len(lines) - 1))
    ELSE lines

\* output.strip().split('\n')[1:] : the lines after the header line
WmicDataLines(lines) ==
    LET body == DropTrailingBlank(DropLeadingBlank(lines))
    IN  IF body = <<>> THEN <<>> ELSE Tail(body)

\* the loop over admin_output.split('\n') that fills admin_list
RECURSIVE AdminListFrom(_, _, _)
AdminListFrom(lines, in_members, acc) ==
    IF lines = <<>> THEN acc
    ELSE LET admin_line == Strip(Head(lines))
         IN  IF Contains(admin_line, <<"-","-","-","-">>)
             THEN AdminListFrom(Tail(lines), TRUE, acc)
             ELSE IF in_members /\ admin_line # <<>>
                     /\ ~StartsWith(admin_line, <<"T","h","e"," ","c","o","m","m","a","n","d">>)
                  THEN AdminListFrom(Tail(lines), in_members, acc \cup {Lower(admin_line)})
                  ELSE AdminListFrom(Tail(lines), in_members, acc)

\* admin_list after the inner try: empty when `net localgroup` fails
admin_list(host) ==
    IF host.net_localgroup.status = "ok"
    THEN AdminListFrom(host.net_localgroup.out, FALSE, {})
    ELSE {}

\* arica_toucan_agent, WMIC path: the loop over the data lines
RECURSIVE WmicUsers(_, _, _)
WmicUsers(lines, admins, users) ==
    IF lines = <<>> THEN users
    ELSE LET parts == Split(Strip(Head(lines)))
         IN  IF parts = <<>> THEN WmicUsers(Tail(lines), admins, users)
             ELSE LET username == Strip(parts[1])
                      is_disabled == Len(parts) > 1 /\ Upper(parts[2]) = <<"T","R","U","E">>
                  IN  IF username # <<>>
                         /\ Lower(username) \notin WINDOWS_SYSTEM_ACCOUNTS
                         /\ ~is_disabled
                      THEN WmicUsers(Tail(lines), admins,
                               Append(users, UserEntry(username,
                                   Lower(username) \in admins, TimeMissing)))
                      ELSE WmicUsers(Tail(lines), admins, users)

\* the line filter of the `net user` listing (both scripts)
NetUserLine(line) ==
    /\ Strip(line) # <<>>
    /\ ~StartsWith(line, <<"-">>)
    /\ ~StartsWith(line, <<"U","s","e","r">>)
    /\ ~StartsWith(line, <<"T","h","e">>)

\* arica_toucan_agent, `net user` fallback: the tokens of one line
RECURSIVE NetUserTokens(_, _, _)
NetUserTokens(tokens, admins, users) ==
    IF tokens = <<>> THEN users
    ELSE LET username == Strip(Head(tokens))
         IN  IF username # <<>> /\ Lower(username) \notin WINDOWS_SYSTEM_ACCOUNTS
             THEN NetUserTokens(Tail(tokens), admins,
                      Append(users, UserEntry(username,
                          Lower(username) \in admins, TimeMissing)))
             ELSE NetUserTokens(Tail(tokens), admins, users)

RECURSIVE NetUserUsers(_, _, _)
NetUserUsers(lines, admins, users) ==
    IF lines = <<>> THEN users
    ELSE IF NetUserLine(Head(lines))
         THEN NetUserUsers(Tail(lines), admins,
                  NetUserTokens(Split(Head(lines)), admins, users))
         ELSE NetUserUsers(Tail(lines), admins, users)

\* sentinel_agent: is_admin = username in admin_output, False when the query fails
SentinelIsAdmin(username, host) ==
    /\ host.net_localgroup.status = "ok"
    /\ Contains(JoinLines(host.net_localgroup.out), username)

RECURSIVE SentinelTokens(_, _, _)
SentinelTokens(tokens, host, users) ==
    IF tokens = <<>> THEN users
    ELSE LET username == Head(tokens)
         IN  IF Strip(username) # <<>>
             THEN SentinelTokens(Tail(tokens), host,
                      Append(users, UserEntry(username,
                          SentinelIsAdmin(username, host), TimeNull)))
             ELSE SentinelTokens(Tail(tokens), host, users)

RECURSIVE SentinelUsers(_, _, _)
SentinelUsers(lines, host, users) ==
    IF lines = <<>> THEN users
    ELSE IF NetUserLine(Head(lines))
         THEN SentinelUsers(Tail(lines), host,
                  SentinelTokens(Split(Head(lines)), host, users))
         ELSE SentinelUsers(Tail(lines), host, users)

\* the users list after the `if system == "windows"` branch
WindowsUsers(script, host) ==
    IF script = "sentinel" THEN
        IF host.net_user.status = "ok"
        THEN SentinelUsers(host.net_user.out, host, <<>>)
        ELSE <<>>
    ELSE IF host.wmic.status = "ok" THEN
        WmicUsers(WmicDataLines(host.wmic.out), admin_list(host), <<>>)
    ELSE IF host.net_user.status = "ok" THEN
        NetUserUsers(host.net_user.out, admin_list(host), <<>>)
    ELSE <<>>

NonInteractiveShells == {<<"/","u","s","r","/","s","b","i","n","/","n","o","l","o","g","i","n">>, <<"/","b","i","n","/","f","a","l","s","e">>, <<"/","s","b","i","n","/","n","o","l","o","g","i","n">>}

FirstUserIds == {501, 1000}

\* a loop over the lines of /etc/passwd that passes over a line whose uid is
\* not an integer and reads on
RECURSIVE PasswdUsersSkipping(_, _, _)
PasswdUsersSkipping(lines, script, users) ==
    IF lines = <<>> THEN users
    ELSE LET parts == SplitOn(Strip(Head(lines)), ":")
         IN  IF Len(parts) >= 7 /\ IsIntText(parts[3])
                /\ (IntOf(parts[3]) >= 1000 \/ IntOf(parts[3]) = 0)
                /\ parts[7] \notin NonInteractiveShells
             THEN PasswdUsersSkipping(Tail(lines), script,
                      Append(users, UserEntry(parts[1],
                          IntOf(parts[3]) = 0 \/ IntOf(parts[3]) \in FirstUserIds,
                          ListedLogin(script))))
             ELSE PasswdUsersSkipping(Tail(lines), script, users)

\* the loop over the lines of /etc/passwd; int() raising ends the loop and
\* keeps the accounts appended so far
RECURSIVE PasswdUsers(_, _, _)
PasswdUsers(lines, script, users) ==
    IF lines = <<>> THEN users
    ELSE LET parts == SplitOn(Strip(Head(lines)), ":")
         IN  IF Len(parts) >= 7
             THEN IF ~IsIntText(parts[3]) THEN users
                  ELSE LET username == parts[1]
                           uid == IntOf(parts[3])
                           shell == parts[7]
                       IN  IF (uid >= 1000 \/ uid = 0) /\ shell \notin NonInteractiveShells
                           THEN PasswdUsers(Tail(lines), script,
                                    Append(users, UserEntry(username,
                                        uid = 0 \/ uid \in FirstUserIds,
                                        ListedLogin(script))))
                           ELSE PasswdUsers(Tail(lines), script, users)
             ELSE PasswdUsers(Tail(lines), script, users)

\* the account listing read from /etc/passwd on every family but Windows
ListedUsersEverywhere(script, system, host) ==
    IF system = "windows" THEN WindowsUsers(script, host)
    ELSE IF host.passwd.status = "ok"
         THEN PasswdUsers(host.passwd.out, script, <<>>)
         ELSE <<>>

\* the users list before the `if not users` fallback
ListedUsers(script, system, host) ==
    IF system = "windows" THEN WindowsUsers(script, host)
    ELSE IF system \in {"darwin", "linux"} THEN
        IF host.passwd.status = "ok"
        THEN PasswdUsers(host.passwd.out, script, <<>>)
        ELSE <<>>
    ELSE <<>>

\* the commands get_user_accounts runs and the account database it opens, in
\* order.  arica_toucan_agent asks for the administrators once, after the
\* listing that succeeded; sentinel_agent asks once for every name listed
accounts_probes(script, system, host) ==
    IF system = "windows" THEN
        IF script = "sentinel" THEN
            <<"net user">> \o [i \in 1..Len(WindowsUsers(script, host)) |-> "net localgroup"]
        ELSE IF host.wmic.status = "ok" THEN <<"wmic", "net localgroup">>
        ELSE IF host.net_user.status = "ok" THEN <<"wmic", "net user", "net localgroup">>
        ELSE <<"wmic", "net user">>
    ELSE IF system \in {"darwin", "linux"} THEN <<"passwd">>
    ELSE <<>>

\* a call's outcome: it raised, or it returned value
Raised(empty) == [raised |-> TRUE, value |-> empty]
Returned(v) == [raised |-> FALSE, value |-> v]

\* get_user_accounts without its `if not users` fallback
get_user_accounts_without_fallback(script, system, host, now) ==
    Returned(ListedUsers(script, system, host))

\* getpass.getuser() is called outside any try: its failure leaves the function
get_user_accounts(script, system, host, now) ==
    LET users == ListedUsers(script, system, host)
    IN  IF users # <<>> THEN Returned(users)
        ELSE IF host.getuser.status = "ok"
             THEN Returned(<<UserEntry(host.getuser.out, TRUE, TimeAt(now))>>)
             ELSE Raised(<<>>)

(***************************************************************************)
(* get_network_info                                                        *)
(***************************************************************************)
\* the loop without its `not in ip_addresses` test
RECURSIVE AppendEveryInterfaceAddr(_, _)
AppendEveryInterfaceAddr(addrs, ip_addresses) ==
    IF addrs = <<>> THEN ip_addresses
    ELSE IF Head(addrs).family = "AF_INET"
         THEN AppendEveryInterfaceAddr(Tail(addrs), Append(ip_addresses, Head(addrs).address))
         ELSE AppendEveryInterfaceAddr(Tail(addrs), ip_addresses)

\* the loop over psutil.net_if_addrs(): IPv4 addresses not yet in the list
RECURSIVE AppendInterfaceAddrs(_, _)
AppendInterfaceAddrs(addrs, ip_addresses) ==
    IF addrs = <<>> THEN ip_addresses
    ELSE LET addr == Head(addrs)
         IN  IF addr.family = "AF_INET"
                /\ ~ \E i \in 1..Len(ip_addresses) : ip_addresses[i] = addr.address
             THEN AppendInterfaceAddrs(Tail(addrs), Append(ip_addresses, addr.address))
             ELSE AppendInterfaceAddrs(Tail(addrs), ip_addresses)

NetworkResult(h, ips) == [hostname |-> h, ipAddresses |-> ips]

\* socket.gethostname() is called outside any try: its failure leaves the function
get_network_info(host) ==
    IF host.gethostname.status # "ok" THEN Raised(NetworkResult("", <<>>))
    ELSE LET resolved == IF host.gethostbyname.status = "ok"
                         THEN <<host.gethostbyname.out>>
                         ELSE <<>>
             ip_addresses == IF host.psutil /\ host.net_if_addrs.status = "ok"
                             THEN AppendInterfaceAddrs(host.net_if_addrs.out, resolved)
                             ELSE resolved
         IN  Returned(NetworkResult(host.gethostname.out, ip_addresses))

(***************************************************************************)
(* Hosts: the outcomes of the probes of one machine                        *)
(***************************************************************************)
Systems == {"windows", "darwin", "linux", "other"}

Scripts == {"arica", "sentinel"}

\* sequences over S of length at most n
SeqsUpTo(S, n) == UNION {[1..k -> S] : k \in 0..n}

RegistryReads == [status : ProbeStatus, value : {0, 1}]

WhichOutcomes == [1..3 -> ProbeStatus]

PasswdNames == {<<"a","l","i","c","e">>, <<>>}
PasswdUids == {<<"0">>, <<"5","0","1">>, <<"9","9","9">>, <<"1","0","0","0">>, <<"1","0","0","1">>, <<"x">>}
PasswdShells == {<<"/","b","i","n","/","b","a","s","h">>, <<"/","u","s","r","/","s","b","i","n","/","n","o","l","o","g","i","n">>}

\* name:x:uid:gid:gecos:home:shell
PasswdLine(name, uid, shell) ==
    name \o <<":","x",":">> \o uid \o <<":","1","0","0",":",":","/","h",":">> \o shell \o <<"\n">>

\* every uid with every shell for one name, every name with one uid and shell,
\* and a line that is no account
PasswdLines ==
    {PasswdLine(<<"a","l","i","c","e">>, u, s) : u \in PasswdUids, s \in PasswdShells}
    \cup {PasswdLine(n, <<"1","0","0","0">>, <<"/","b","i","n","/","b","a","s","h">>) :
             n \in PasswdNames}
    \cup {<<"#"," ","c","o","m","m","e","n","t">> \o <<"\n">>}

PasswdFiles == ProbesOver(SeqsUpTo(PasswdLines, MaxPasswdLines))

WmicHeader == <<"N","a","m","e"," "," "," ","D","i","s","a","b","l","e","d"," "," ","S","t","a","t","u","s">>

\* local accounts as WMIC knows them: an account name may hold a space
WmicAccounts ==
    {[Name |-> <<"a","l","i","c","e">>, Disabled |-> <<"F","A","L","S","E">>, Status |-> <<"O","K">>],
     [Name |-> <<"G","u","e","s","t">>, Disabled |-> <<"F","A","L","S","E">>, Status |-> <<"O","K">>],
     [Name |-> <<"B","o","b">>, Disabled |-> <<"T","R","U","E">>, Status |-> <<"D","e","g","r","a","d","e","d">>],
     [Name |-> <<"A","l"," ","B","o">>, Disabled |-> <<"T","R","U","E">>, Status |-> <<"O","K">>]}

\* the row of an account under the columns Name, Disabled, Status asked for
WmicRow(account) ==
    account.Name \o <<" "," ">> \o account.Disabled \o <<" "," ">> \o account.Status

WmicLines == {WmicRow(a) : a \in WmicAccounts} \cup {<<" "," ">>}

WmicOutputs == {<<WmicHeader>> \o ls : ls \in SeqsUpTo(WmicLines, MaxWmicLines)}

LocalgroupOutputs ==
    {<<<<"M","e","m","b","e","r","s">>, <<>>, <<"-","-","-","-","-","-","-","-">>, <<"A","d","m","i","n","i","s","t","r","a","t","o","r">>, <<"a","l","i","c","e">>,
       <<"T","h","e"," ","c","o","m","m","a","n","d"," ","c","o","m","p","l","e","t","e","d"," ","s","u","c","c","e","s","s","f","u","l","l","y",".">>, <<>>>>,
     <<<<"M","e","m","b","e","r","s">>, <<"-","-","-","-","-","-","-","-">>, <<"B","o","b">>>>,
     <<<<"a","l","i","c","e">>>>}

NetUserOutputs ==
    {<<<<"U","s","e","r"," ","a","c","c","o","u","n","t","s"," ","f","o","r"," ","P","C">>, <<>>, <<"-","-","-","-","-","-","-","-">>, <<"A","d","m","i","n","i","s","t","r","a","t","o","r"," "," "," ","a","l","i","c","e"," "," "," ","G","u","e","s","t">>,
       <<"T","h","e"," ","c","o","m","m","a","n","d"," ","c","o","m","p","l","e","t","e","d"," ","s","u","c","c","e","s","s","f","u","l","l","y",".">>, <<>>>>,
     <<<<"U","s","e","r"," ","a","c","c","o","u","n","t","s"," ","f","o","r"," ","P","C">>, <<"-","-","-","-","-","-","-","-">>, <<"G","u","e","s","t"," "," "," ","D","e","f","a","u","l","t","A","c","c","o","u","n","t">>,
       <<"T","h","e"," ","c","o","m","m","a","n","d"," ","c","o","m","p","l","e","t","e","d"," ","s","u","c","c","e","s","s","f","u","l","l","y",".">>>>,
     <<<<>>>>}

GetuserOutcomes == {Probe("ok", <<"a","l","i","c","e">>), Probe("error", <<>>)}

Addresses == {"10.0.0.5", "127.0.0.1"}

InterfaceAddrs ==
    [family : {"AF_INET"}, address : Addresses]
    \cup {[family |-> "AF_INET6", address |-> "::1"]}

Resolutions == {[status |-> "ok", out |-> a] : a \in Addresses}
               \cup {[status |-> st, out |-> ""] : st \in Failures}

Hostnames == {[status |-> "ok", out |-> "pc"], [status |-> "error", out |-> ""]}

Enumerations ==
    {[status |-> "ok", out |-> as] : as \in SeqsUpTo(InterfaceAddrs, MaxIfaceAddrs)}
    \cup {[status |-> "error", out |-> <<>>]}

\* a machine on which every probe fails and only the process's own identity
\* (user name, host name) is known
BareHost ==
    [netsh |-> NoProbe, socketfilterfw |-> NoProbe, ufw |-> NoProbe,
     iptables |-> NoProbe,
     winreg |-> [status |-> "error", value |-> 0],
     which |-> [i \in 1..3 |-> "error"],
     manage_bde |-> NoProbe, fdesetup |-> NoProbe, lsblk |-> NoProbe,
     wmic |-> NoProbe, net_localgroup |-> NoProbe, net_user |-> NoProbe,
     passwd |-> NoProbe,
     getuser |-> Probe("ok", <<"a","l","i","c","e">>),
     gethostname |-> [status |-> "ok", out |-> "pc"],
     gethostbyname |-> [status |-> "error", out |-> ""],
     psutil |-> FALSE,
     net_if_addrs |-> [status |-> "error", out |-> <<>>]]

\* a machine on which every probe answers and every protection is on
ProtectedHost ==
    [netsh |-> Probe("ok", <<"S","t","a","t","e"," ","O","N">>),
     socketfilterfw |-> Probe("ok", <<"F","i","r","e","w","a","l","l"," ","i","s"," ","e","n","a","b","l","e","d","."," ","(","S","t","a","t","e"," ","="," ","1",")">>),
     ufw |-> Probe("ok", <<"S","t","a","t","u","s",":"," ","a","c","t","i","v","e">>),
     iptables |-> Probe("ok", <<>>),
     winreg |-> [status |-> "ok", value |-> 0],
     which |-> [i \in 1..3 |-> IF i = 2 THEN "ok" ELSE "error"],
     manage_bde |-> Probe("ok", <<"P","r","o","t","e","c","t","i","o","n"," ","O","n">>),
     fdesetup |-> Probe("ok", <<"F","i","l","e","V","a","u","l","t"," ","i","s"," ","O","n",".">>),
     lsblk |-> Probe("ok", <<"l","u","k","s"," ","c","r","y","p","t"," ","/">>),
     wmic |-> Probe("ok", <<WmicHeader, <<"a","l","i","c","e"," "," ","F","A","L","S","E"," "," ","O","K">>>>),
     net_localgroup |-> Probe("ok", <<<<"M","e","m","b","e","r","s">>, <<"-","-","-","-","-","-","-","-">>, <<"a","l","i","c","e">>>>),
     net_user |-> Probe("ok", <<<<"U","s","e","r"," ","a","c","c","o","u","n","t","s"," ","f","o","r"," ","P","C">>, <<"-","-","-","-","-","-","-","-">>, <<"a","l","i","c","e">>>>),
     passwd |-> Probe("ok", <<PasswdLine(<<"a","l","i","c","e">>, <<"1","0","0","0">>, <<"/","b","i","n","/","b","a","s","h">>)>>),
     getuser |-> Probe("ok", <<"a","l","i","c","e">>),
     gethostname |-> [status |-> "ok", out |-> "pc"],
     gethostbyname |-> [status |-> "ok", out |-> "10.0.0.5"],
     psutil |-> TRUE,
     net_if_addrs |-> [status |-> "ok",
                       out |-> <<[family |-> "AF_INET", address |-> "127.0.0.1"],
                                 [family |-> "AF_INET", address |-> "10.0.0.5"]>>]]

\* a machine on which every probe answers and no protection is on
UnprotectedHost ==
    [ProtectedHost EXCEPT
        !.netsh = Probe("ok", <<"S","t","a","t","e"," ","O","F","F">>),
        !.socketfilterfw = Probe("ok", <<"F","i","r","e","w","a","l","l"," ","i","s"," ","d","i","s","a","b","l","e","d",".">>),
        !.ufw = Probe("ok", <<"S","t","a","t","u","s",":"," ","i","n","a","c","t","i","v","e">>),
        !.winreg = [status |-> "ok", value |-> 1],
        !.which = [i \in 1..3 |-> "error"],
        !.manage_bde = Probe("ok", <<"P","r","o","t","e","c","t","i","o","n"," ","O","f","f">>),
        !.fdesetup = Probe("ok", <<"F","i","l","e","V","a","u","l","t"," ","i","s"," ","O","f","f",".">>),
        !.lsblk = Probe("ok", <<"s","d","a"," ","d","i","s","k"," ","/">>)]

\* the machines on which the command-line entry points are run
MainHosts ==
    {BareHost, ProtectedHost, UnprotectedHost,
     [BareHost EXCEPT !.getuser = Probe("error", <<>>)],
     [ProtectedHost EXCEPT !.gethostname = [status |-> "error", out |-> ""]]}

\* the machines on which get_user_accounts is called
AccountHosts(system) ==
    IF system = "windows"
    THEN {[BareHost EXCEPT !.wmic = w, !.net_localgroup = g, !.net_user = u,
                           !.getuser = c] :
             w \in ProbesOver(WmicOutputs), g \in ProbesOver(LocalgroupOutputs),
             u \in ProbesOver(NetUserOutputs), c \in GetuserOutcomes}
    ELSE IF system \in {"darwin", "linux"}
    THEN {[BareHost EXCEPT !.passwd = p, !.getuser = c] :
             p \in PasswdFiles, c \in GetuserOutcomes}
    ELSE {[BareHost EXCEPT !.passwd = p, !.getuser = c] :
             p \in {NoProbe, ProtectedHost.passwd}, c \in GetuserOutcomes}

\* the machines on which collect_system_data is called: every outcome of every
\* probe of the firewall, endpoint-protection and disk-encryption detectors
DetectorHosts(system) ==
    IF system = "windows"
    THEN {[ProtectedHost EXCEPT !.netsh = f, !.winreg = a, !.manage_bde = e] :
             f \in ProbesOver(NetshOutputs), a \in RegistryReads,
             e \in ProbesOver(ManageBdeOutputs)}
    ELSE IF system = "darwin"
    THEN {[ProtectedHost EXCEPT !.socketfilterfw = f, !.fdesetup = e] :
             f \in ProbesOver(SocketfilterfwOutputs), e \in ProbesOver(FdesetupOutputs)}
    ELSE IF system = "linux"
    THEN {[ProtectedHost EXCEPT !.ufw = f, !.iptables = t, !.which = a, !.lsblk = e] :
             f \in ProbesOver(UfwOutputs), t \in ProbesOver({<<>>}),
             a \in WhichOutcomes, e \in ProbesOver(LsblkOutputs)}
    ELSE {ProtectedHost, BareHost}

\* the machines on which get_network_info is called
NetworkHosts ==
    {[BareHost EXCEPT !.gethostname = h, !.gethostbyname = r, !.psutil = ps,
                      !.net_if_addrs = e] :
        h \in Hostnames, r \in Resolutions, ps \in BOOLEAN, e \in Enumerations}

(***************************************************************************)
(* Values exchanged with the server                                        *)
(***************************************************************************)
\* a Python value that may stand where an audit identifier is expected
PyNone == [tag |-> "none", str |-> <<>>, num |-> 0]
PyStr(s) == [tag |-> "str", str |-> s, num |-> 0]
PyNum(n) == [tag |-> "num", str |-> <<>>, num |-> n]

\* `is not None` in place of bool(v)
IsNotNone(v) == v.tag # "none"

\* bool(v)
Truthy(v) == (v.tag = "str" /\ v.str # <<>>) \/ (v.tag = "num" /\ v.num # 0)

AuditIds == {<<"a","b">>, <<"a","b","c","-","1","2","3","x","y">>}

\* the auditId member of the JSON object a 2xx create response carries:
\* absent, null, a string (possibly empty) or a number
AuditIdMembers ==
    {[present |-> FALSE, value |-> PyNone], [present |-> TRUE, value |-> PyNone]}
    \cup {[present |-> TRUE, value |-> PyStr(s)] : s \in AuditIds \cup {<<>>}}
    \cup {[present |-> TRUE, value |-> PyNum(n)] : n \in {0, 7}}

\* what one POST /api/audit/create can end in
CreateResponses ==
    {[kind |-> k, member |-> [present |-> FALSE, value |-> PyNone]] :
        k \in {"conn_error", "read_timeout", "http_error", "bad_json", "non_object"}}
    \cup {[kind |-> "ok", member |-> m] : m \in AuditIdMembers}

\* what one POST /api/audit/upload-system-data can end in
UploadResponses ==
    {"ok", "conn_error", "timeout", "http_error_json", "http_error_text"}

\* what socket.gethostbyname(hostname) of the server can end in
DnsOutcomes == {"resolved", "gaierror", "other_error"}

\* dict.get("auditId")
GetAuditId(member) == IF member.present THEN member.value ELSE PyNone

DefaultMaxRetries == 3

\* audit_id[:8].upper(), the form in which an identifier is displayed
display_id(id) == Upper(Truncate(id, 8))

\* a body carrying the identifier in its display form
upload_body_displayed(id, data) ==
    [sent |-> TRUE, auditId |-> PyStr(display_id(id.str)), systemData |-> data]

\* a body whose snapshot is stamped again when it is sent
upload_body_restamped(id, data) ==
    [sent |-> TRUE, auditId |-> id,
     systemData |-> [data EXCEPT !.collectedAt = data.collectedAt + 1]]

\* the json body of upload_system_data
upload_body(id, data) == [sent |-> TRUE, auditId |-> id, systemData |-> data]

(***************************************************************************)
(* State                                                                   *)
(***************************************************************************)
VARIABLES
    call,           \* the entry point under execution and its arguments
    system,         \* platform.system().lower(), "other" for any other family
    host,           \* the probe outcomes of the machine
    pc,             \* position of the single thread of control
    clock,          \* datetime.now(), advanced by reads and by time.sleep
    firewall,       \* result of check_firewall_status
    antivirus,      \* result of check_antivirus_status
    encryption,     \* result of check_disk_encryption
    users,          \* result of get_user_accounts
    network,        \* result of get_network_info
    probed,         \* commands run, registry and account database reads, in order
    system_data,    \* the assembled snapshot
    printed,        \* the snapshot was dumped to standard output
    shown,          \* the audit identifier as last displayed to the user
    gui,            \* the standalone questionnaire window and its worker threads
    requests,       \* network requests issued so far, in order
    sleeps,         \* time.sleep calls so far: attempt index and seconds
    attempt,        \* loop variable of create_audit
    audit_id,       \* what create_audit returned
    upload_payload, \* json body of the upload request
    scan_result,    \* what run_system_scan returned
    raised,         \* function an exception escaped from, "" if none
    exit_code       \* process exit status, -1 while running

vars == <<call, system, host, pc, clock, firewall, antivirus, encryption, users,
          network, probed, system_data, printed, shown, gui, requests, sleeps,
          attempt, audit_id, upload_payload, scan_result, raised, exit_code>>

hostVars == <<call, system, host>>

detectorVars == <<firewall, antivirus, encryption, users, network, probed>>

transportVars == <<requests, sleeps, attempt, audit_id, upload_payload, scan_result>>

NoFirewall == FirewallResult(FALSE, "")
NoAntivirus == AntivirusResult(FALSE, Missing, "")
NoEncryption == EncryptionResult(FALSE, Missing)
NoNetwork == NetworkResult("", <<>>)

\* a merge of result dictionaries that share one status key: the later
\* detector's text replaces the earlier one's
SnapshotSharedStatus(fw, av, enc, us, net, at) ==
    [set |-> TRUE, firewall |-> [fw EXCEPT !.firewallStatus = av.antivirusStatus],
     antivirus |-> av, encryption |-> enc,
     userAccounts |-> us, networkInfo |-> net, collectedAt |-> at]

Snapshot(fw, av, enc, us, net, at) ==
    [set |-> TRUE, firewall |-> fw, antivirus |-> av, encryption |-> enc,
     userAccounts |-> us, networkInfo |-> net, collectedAt |-> at]

NoSnapshot ==
    [set |-> FALSE, firewall |-> NoFirewall, antivirus |-> NoAntivirus,
     encryption |-> NoEncryption, userAccounts |-> <<>>, networkInfo |-> NoNetwork,
     collectedAt |-> 0]

NoPayload == [sent |-> FALSE, auditId |-> PyNone, systemData |-> NoSnapshot]

\* the standalone questionnaire window before launch_questionnaire builds it.
\* dialogs is the stack of open modal message boxes, after_queue the callbacks
\* handed to root.after and not yet run, in_flight the submission threads whose
\* request has not been answered, success the cell result["success"]
NoGui ==
    [window |-> "none", has_requests |-> TRUE, answered |-> FALSE,
     submit_btn |-> "normal", in_flight |-> 0, after_queue |-> <<>>,
     dialogs |-> <<>>, success |-> FALSE, returned |-> "none",
     thread_raised |-> FALSE]

\* launch_questionnaire(audit_id, server_url) of questionnaire.py called directly
LaunchCall ==
    [entry |-> "launch_questionnaire", script |-> "questionnaire", mode |-> "system",
     dry_run |-> FALSE, max_retries |-> 0]

\* member: the auditId member of a create response, or the one a request sent
Request(op, kind, m) == [op |-> op, kind |-> kind, member |-> m]

\* the entry points: the two scripts' main(), and four functions called directly
MainCalls ==
    {[entry |-> "main", script |-> "arica", mode |-> m, dry_run |-> d,
      max_retries |-> DefaultMaxRetries] :
        m \in {"system", "full"}, d \in BOOLEAN}
    \cup {[entry |-> "main", script |-> "sentinel", mode |-> "system", dry_run |-> d,
           max_retries |-> 1] : d \in BOOLEAN}

FunctionCall(f, s, m) ==
    [entry |-> f, script |-> s, mode |-> "system", dry_run |-> FALSE, max_retries |-> m]

\* run_system_scan(server_url, dry_run) of arica_toucan_agent called directly
ScanCalls ==
    {[entry |-> "run_system_scan", script |-> "arica", mode |-> "system", dry_run |-> d,
      max_retries |-> DefaultMaxRetries] : d \in BOOLEAN}

FirstPc(entry) ==
    IF entry \in {"main", "run_system_scan", "collect_system_data"} THEN "firewall"
    ELSE IF entry = "get_user_accounts" THEN "users"
    ELSE IF entry = "get_network_info" THEN "network"
    ELSE IF entry = "launch_questionnaire" THEN "launch"
    ELSE "create"

InitWith(c, s, h) ==
    /\ call = c
    /\ system = s
    /\ host = h
    /\ pc = FirstPc(c.entry)
    /\ clock = 0
    /\ firewall = NoFirewall
    /\ antivirus = NoAntivirus
    /\ encryption = NoEncryption
    /\ users = <<>>
    /\ network = NoNetwork
    /\ system_data = NoSnapshot
    /\ printed = FALSE
    /\ shown = PyNone
    /\ gui = NoGui
    /\ probed = <<>>
    /\ requests = <<>>
    /\ sleeps = <<>>
    /\ attempt = 0
    /\ audit_id = PyNone
    /\ upload_payload = NoPayload
    /\ scan_result = PyNone
    /\ raised = ""
    /\ exit_code = -1

Init ==
    \/ \E c \in MainCalls, s \in Systems, h \in MainHosts : InitWith(c, s, h)
    \/ \E c \in ScanCalls, s \in Systems, h \in MainHosts : InitWith(c, s, h)
    \/ \E sc \in Scripts, s \in Systems :
          \E h \in AccountHosts(s) :
             InitWith(FunctionCall("get_user_accounts", sc, 0), s, h)
    \/ \E sc \in Scripts, s \in Systems :
          \E h \in DetectorHosts(s) :
             InitWith(FunctionCall("collect_system_data", sc, 0), s, h)
    \/ \E sc \in Scripts, h \in NetworkHosts :
          InitWith(FunctionCall("get_network_info", sc, 0), "linux", h)
    \/ \E m \in 0..MaxRetriesArg :
          InitWith(FunctionCall("create_audit", "arica", m), "linux", BareHost)
    \/ InitWith(LaunchCall, "linux", BareHost)

(***************************************************************************)
(* collect_system_data: the five detectors in order, then the assembly     *)
(***************************************************************************)
\* an exception that nothing catches: a called function hands it to its caller,
\* a script's main() ends the process with a traceback and status 1
Escapes(f) ==
    /\ raised' = f
    /\ pc' = IF call.entry = "main" THEN "exited" ELSE "raised"
    /\ exit_code' = IF call.entry = "main" THEN 1 ELSE exit_code

CheckFirewall ==
    /\ pc = "firewall"
    /\ firewall' = check_firewall_status(system, host)
    /\ probed' = probed \o firewall_probes(system, host)
    /\ pc' = "antivirus"
    /\ UNCHANGED <<hostVars, gui, clock, antivirus, encryption, users, network, system_data,
                   printed, shown, transportVars, raised, exit_code>>

CheckAntivirus ==
    /\ pc = "antivirus"
    /\ antivirus' = check_antivirus_status(call.script, system, host)
    /\ probed' = probed \o antivirus_probes(system, host)
    /\ pc' = "encryption"
    /\ UNCHANGED <<hostVars, gui, clock, firewall, encryption, users, network, system_data,
                   printed, shown, transportVars, raised, exit_code>>

CheckDiskEncryption ==
    /\ pc = "encryption"
    /\ encryption' = check_disk_encryption(call.script, system, host)
    /\ probed' = probed \o encryption_probes(system)
    /\ pc' = "users"
    /\ UNCHANGED <<hostVars, gui, clock, firewall, antivirus, users, network, system_data,
                   printed, shown, transportVars, raised, exit_code>>

GetUserAccounts ==
    /\ pc = "users"
    /\ probed' = probed \o accounts_probes(call.script, system, host)
    /\ LET r == get_user_accounts(call.script, system, host, clock)
       IN  IF r.raised
           THEN /\ Escapes("get_user_accounts")
                /\ UNCHANGED <<users, clock>>
           ELSE /\ users' = r.value
                /\ clock' = IF ListedUsers(call.script, system, host) = <<>>
                            THEN clock + 1   \* datetime.now() of the fallback entry
                            ELSE clock
                /\ pc' = IF call.entry = "get_user_accounts" THEN "returned" ELSE "network"
                /\ UNCHANGED <<raised, exit_code>>
    /\ UNCHANGED <<hostVars, gui, firewall, antivirus, encryption, network, system_data,
                   printed, shown, transportVars>>

GetNetworkInfo ==
    /\ pc = "network"
    /\ LET r == get_network_info(host)
       IN  IF r.raised
           THEN /\ Escapes("get_network_info")
                /\ UNCHANGED network
           ELSE /\ network' = r.value
                /\ pc' = IF call.entry = "get_network_info" THEN "returned" ELSE "assemble"
                /\ UNCHANGED <<raised, exit_code>>
    /\ UNCHANGED <<hostVars, gui, clock, firewall, antivirus, encryption, users, probed,
                   system_data,
                   printed, shown, transportVars>>

\* the return statement of collect_system_data, and where its caller goes next
Assemble ==
    /\ pc = "assemble"
    /\ system_data' = Snapshot(firewall, antivirus, encryption, users, network, clock)
    /\ clock' = clock + 1
    /\ pc' = IF call.entry = "collect_system_data" THEN "returned"
             ELSE IF call.dry_run THEN "dry_run"
             ELSE IF call.script = "arica" THEN "connectivity"
             ELSE "create"
    /\ UNCHANGED <<hostVars, gui, detectorVars, printed, shown, transportVars, raised, exit_code>>

\* the dry-run branch: the snapshot is printed; run_system_scan then returns
\* None, main() of arica_toucan_agent waits for Enter, main() of sentinel_agent
\* returns
DryRun ==
    /\ pc = "dry_run"
    /\ printed' = TRUE
    /\ IF call.entry = "run_system_scan"
       THEN pc' = "scan_returned" /\ UNCHANGED exit_code
       ELSE IF call.script = "arica"
       THEN pc' = "input_exit0" /\ UNCHANGED exit_code
       ELSE pc' = "exited" /\ exit_code' = 0
    /\ UNCHANGED <<hostVars, gui, clock, detectorVars, system_data, shown, transportVars,
                   raised>>

(***************************************************************************)
(* Transport                                                               *)
(***************************************************************************)
NoMember == [present |-> FALSE, value |-> PyNone]

\* a connectivity check whose failure is not acted on
test_connectivity_ignored(dns) == TRUE

\* test_connectivity: one DNS resolution, True iff it resolved
test_connectivity(dns) == dns = "resolved"

TestConnectivity ==
    /\ pc = "connectivity"
    /\ \E dns \in DnsOutcomes :
          /\ requests' = Append(requests, Request("dns", dns, NoMember))
          /\ IF test_connectivity(dns)
             THEN pc' = "create" /\ UNCHANGED scan_result
             ELSE pc' = "scan_returned" /\ scan_result' = PyNone
    /\ UNCHANGED <<hostVars, gui, clock, detectorVars, system_data, printed, shown, sleeps, attempt,
                   audit_id, upload_payload, raised, exit_code>>

\* 2 ** n
RECURSIVE Pow2(_)
Pow2(n) == IF n = 0 THEN 1 ELSE 2 * Pow2(n - 1)

\* the loop giving up one attempt early
create_audit_attempt_short(n, max_retries, resp) ==
    IF resp.kind = "ok"
    THEN [done |-> TRUE, value |-> GetAuditId(resp.member), slept |-> FALSE, wait |-> 0]
    ELSE IF resp.kind = "conn_error" /\ n < max_retries - 2
    THEN [done |-> FALSE, value |-> PyNone, slept |-> TRUE, wait |-> Pow2(n)]
    ELSE [done |-> TRUE, value |-> PyNone, slept |-> FALSE, wait |-> 0]

\* the loop with a linear backoff, 2 * (attempt + 1) seconds
create_audit_attempt_linear(n, max_retries, resp) ==
    IF resp.kind = "ok"
    THEN [done |-> TRUE, value |-> GetAuditId(resp.member), slept |-> FALSE, wait |-> 0]
    ELSE IF resp.kind = "conn_error" /\ n < max_retries - 1
    THEN [done |-> FALSE, value |-> PyNone, slept |-> TRUE, wait |-> 2 * (n + 1)]
    ELSE [done |-> TRUE, value |-> PyNone, slept |-> FALSE, wait |-> 0]

\* the loop retrying after every kind of failure
create_audit_attempt_any(n, max_retries, resp) ==
    IF resp.kind = "ok"
    THEN [done |-> TRUE, value |-> GetAuditId(resp.member), slept |-> FALSE, wait |-> 0]
    ELSE IF n < max_retries - 1
    THEN [done |-> FALSE, value |-> PyNone, slept |-> TRUE, wait |-> Pow2(n)]
    ELSE [done |-> TRUE, value |-> PyNone, slept |-> FALSE, wait |-> 0]

\* one iteration of the retry loop of create_audit (arica_toucan_agent), given the
\* response to its request: the function returns value, or sleeps and goes round
create_audit_attempt(n, max_retries, resp) ==
    IF resp.kind = "ok"
    THEN [done |-> TRUE, value |-> GetAuditId(resp.member), slept |-> FALSE, wait |-> 0]
    ELSE IF resp.kind = "conn_error" /\ n < max_retries - 1
    THEN [done |-> FALSE, value |-> PyNone, slept |-> TRUE, wait |-> Pow2(n)]
    ELSE [done |-> TRUE, value |-> PyNone, slept |-> FALSE, wait |-> 0]

\* a caller that asks for an audit again whenever create_audit has returned
AfterCreateAgain == "create"

AfterCreate == IF call.entry = "create_audit" THEN "returned" ELSE "check_audit_id"

CreateAudit ==
    /\ pc = "create"
    /\ call.script = "arica"
    /\ IF attempt >= call.max_retries
       THEN \* range(max_retries) is exhausted: the return after the loop
            /\ audit_id' = PyNone
            /\ pc' = AfterCreate
            /\ UNCHANGED <<requests, sleeps, attempt, clock>>
       ELSE \E resp \in CreateResponses :
               LET r == create_audit_attempt(attempt, call.max_retries, resp)
               IN  /\ requests' = Append(requests, Request("create", resp.kind, resp.member))
                   /\ sleeps' = IF r.slept
                                THEN Append(sleeps, [attempt |-> attempt, seconds |-> r.wait])
                                ELSE sleeps
                   /\ clock' = clock + r.wait
                   /\ IF r.done
                      THEN audit_id' = r.value /\ pc' = AfterCreate /\ UNCHANGED attempt
                      ELSE attempt' = attempt + 1 /\ UNCHANGED <<audit_id, pc>>
    /\ UNCHANGED <<hostVars, gui, detectorVars, system_data, printed, shown, upload_payload,
                   scan_result, raised, exit_code>>

\* create_audit of sentinel_agent: one request, every failure gives None
sentinel_create_audit(resp) ==
    IF resp.kind = "ok" THEN GetAuditId(resp.member) ELSE PyNone

SentinelCreateAudit ==
    /\ pc = "create"
    /\ call.script = "sentinel"
    /\ \E resp \in CreateResponses :
          /\ requests' = Append(requests, Request("create", resp.kind, resp.member))
          /\ audit_id' = sentinel_create_audit(resp)
    /\ pc' = "check_audit_id"
    /\ UNCHANGED <<hostVars, gui, clock, detectorVars, system_data, printed, shown, sleeps, attempt,
                   upload_payload, scan_result, raised, exit_code>>

\* `if not audit_id` and the print of audit_id[:8].upper() that follows it;
\* slicing a number raises TypeError, which nothing catches
CheckAuditId ==
    /\ pc = "check_audit_id"
    /\ IF ~Truthy(audit_id)
       THEN /\ IF call.script = "arica"
               THEN pc' = "scan_returned" /\ scan_result' = PyNone
               ELSE pc' = "input_exit1" /\ UNCHANGED scan_result
            /\ UNCHANGED <<raised, exit_code, shown>>
       ELSE IF audit_id.tag # "str"
       THEN /\ Escapes(IF call.script = "arica" THEN "run_system_scan" ELSE "main")
            /\ UNCHANGED <<scan_result, shown>>
       ELSE /\ pc' = "upload"
            /\ shown' = PyStr(display_id(audit_id.str))
            /\ UNCHANGED <<scan_result, raised, exit_code>>
    /\ UNCHANGED <<hostVars, gui, clock, detectorVars, system_data, printed, requests, sleeps,
                   attempt, audit_id, upload_payload>>

\* an upload whose outcome is not looked at
upload_system_data_unchecked(resp) == TRUE

\* upload_system_data: True iff the one request got a 2xx answer
upload_system_data(resp) == resp = "ok"

Uploads == Len(SelectSeq(requests, LAMBDA r : r.op = "upload"))

\* an upload that is tried a second time after a connection error
UploadSystemDataRetried ==
    /\ pc = "upload"
    /\ \E resp \in UploadResponses :
          /\ requests' = Append(requests,
                 Request("upload", resp,
                         [present |-> TRUE,
                          value |-> upload_body(audit_id, system_data).auditId]))
          /\ upload_payload' = upload_body(audit_id, system_data)
          /\ IF resp = "conn_error" /\ Uploads = 0
             THEN UNCHANGED <<scan_result, pc>>
             ELSE IF call.script = "arica"
             THEN /\ scan_result' = IF upload_system_data(resp) THEN audit_id ELSE PyNone
                  /\ pc' = "scan_returned"
             ELSE /\ UNCHANGED scan_result
                  /\ pc' = "input_exit0"
    /\ UNCHANGED <<hostVars, gui, clock, detectorVars, system_data, printed, shown, sleeps, attempt,
                   audit_id, raised, exit_code>>

UploadSystemData ==
    /\ pc = "upload"
    /\ \E resp \in UploadResponses :
          /\ requests' = Append(requests,
                 Request("upload", resp,
                         [present |-> TRUE,
                          value |-> upload_body(audit_id, system_data).auditId]))
          /\ upload_payload' = upload_body(audit_id, system_data)
          /\ IF call.script = "arica"
             THEN /\ scan_result' = IF upload_system_data(resp) THEN audit_id ELSE PyNone
                  /\ pc' = "scan_returned"
             ELSE \* sentinel_agent reports the outcome and falls through to the
                  \* end of main() either way
                  /\ UNCHANGED scan_result
                  /\ pc' = "input_exit0"
    /\ UNCHANGED <<hostVars, gui, clock, detectorVars, system_data, printed, shown, sleeps, attempt,
                   audit_id, raised, exit_code>>

(***************************************************************************)
(* main() of arica_toucan_agent after run_system_scan                      *)
(***************************************************************************)
\* full mode going on to the questionnaire whatever run_system_scan returned
AfterScanUnchecked ==
    /\ pc = "scan_returned"
    /\ call.entry = "main"
    /\ IF call.mode = "system"
       THEN pc' = IF Truthy(scan_result) THEN "input_exit0" ELSE "input_exit1"
       ELSE \E HAS_TKINTER \in BOOLEAN :
               pc' = IF HAS_TKINTER THEN "questionnaire" ELSE "input_exit0"
    /\ UNCHANGED <<hostVars, gui, clock, detectorVars, system_data, printed, shown, transportVars,
                   raised, exit_code>>

AfterScan ==
    /\ pc = "scan_returned"
    /\ call.entry = "main"
    /\ IF ~Truthy(scan_result) THEN pc' = "input_exit1"
       ELSE IF call.mode = "system" THEN pc' = "input_exit0"
       ELSE \E HAS_TKINTER \in BOOLEAN :
               pc' = IF HAS_TKINTER THEN "questionnaire" ELSE "input_exit0"
    /\ UNCHANGED <<hostVars, gui, clock, detectorVars, system_data, printed, shown, transportVars,
                   raised, exit_code>>

\* the auditId member sent in its display form
questionnaire_member_displayed(id) ==
    [present |-> TRUE, value |-> PyStr(display_id(id.str))]

\* the auditId member of the json body of a submit-questionnaire request
questionnaire_member(id) == [present |-> TRUE, value |-> id]

Submissions == Len(SelectSeq(requests, LAMBDA r : r.op = "questionnaire"))

\* submit_questionnaire: True iff the one request got a 2xx answer
submit_questionnaire(resp) == resp = "ok"

\* QuestionnaireGUI._submit with every question answered and the confirmation
\* accepted: one request; success closes the window, failure leaves it open
GuiSubmit ==
    /\ pc = "questionnaire"
    /\ Submissions < MaxSubmits
    /\ \E resp \in UploadResponses :
          /\ requests' = Append(requests,
                 Request("questionnaire", resp, questionnaire_member(scan_result)))
          /\ clock' = clock + 1
          /\ pc' = IF submit_questionnaire(resp) THEN "input_exit0" ELSE "questionnaire"
    /\ UNCHANGED <<hostVars, gui, detectorVars, system_data, printed, shown, sleeps, attempt,
                   audit_id, upload_payload, scan_result, raised, exit_code>>

\* the window is closed without a successful submission: run() returns False
GuiClose ==
    /\ pc = "questionnaire"
    /\ pc' = "input_exit1"
    /\ UNCHANGED <<hostVars, gui, clock, detectorVars, system_data, printed, shown, transportVars,
                   raised, exit_code>>

\* input("Press Enter to exit...") and the exit that follows it; a closed standard
\* input makes input() raise EOFError, which nothing catches
ExitMain ==
    /\ pc \in {"input_exit0", "input_exit1"}
    /\ \E eof \in BOOLEAN :
          /\ exit_code' = IF eof \/ pc = "input_exit1" THEN 1 ELSE 0
          /\ raised' = IF eof THEN "main" ELSE raised
    /\ pc' = "exited"
    /\ UNCHANGED <<hostVars, gui, clock, detectorVars, system_data, printed, shown, transportVars>>

(***************************************************************************)
(* questionnaire.py: launch_questionnaire and the threaded QuestionnaireGUI *)
(* One UI thread runs the Tk main loop; every submission runs in a thread  *)
(* of its own and hands its outcome back with root.after.  A message box   *)
(* is modal: while it is open the main window takes no click, but the      *)
(* nested event loop still runs the callbacks handed over with root.after. *)
(***************************************************************************)
CloseDialog(g) == [g EXCEPT !.dialogs = SubSeq(@, 1, Len(@) - 1)]

\* root.destroy(): the window, its message boxes and its pending callbacks go
Destroy(g) ==
    [g EXCEPT !.window = "destroyed", !.dialogs = <<>>, !.after_queue = <<>>]

\* _submit leaving the submit control enabled
_submit_leaves_enabled(g) ==
    IF ~g.answered THEN [g EXCEPT !.dialogs = Append(@, "incomplete")]
    ELSE IF ~g.has_requests THEN [g EXCEPT !.dialogs = Append(@, "missing_dependency")]
    ELSE [g EXCEPT !.in_flight = @ + 1]

\* QuestionnaireGUI._submit: validation, then the control is disabled and the
\* submission thread started
_submit(g) ==
    IF ~g.answered THEN [g EXCEPT !.dialogs = Append(@, "incomplete")]
    ELSE IF ~g.has_requests THEN [g EXCEPT !.dialogs = Append(@, "missing_dependency")]
    ELSE [g EXCEPT !.submit_btn = "disabled", !.in_flight = @ + 1]

\* a further submission thread may start
CanStart == Submissions + gui.in_flight < MaxSubmits

\* a call of _submit in the current state stays within MaxSubmits
SubmitAllowed == ~gui.answered \/ ~gui.has_requests \/ CanStart

\* QuestionnaireGUI._on_submit_error up to its message box
_on_submit_error(g) ==
    [g EXCEPT !.submit_btn = "normal", !.dialogs = Append(@, "retry")]

\* QuestionnaireGUI._on_submit_success up to its message box
_on_submit_success(g) == [g EXCEPT !.dialogs = Append(@, "success")]

\* on_complete(success) followed by root.destroy()
Complete(g, success) == Destroy([g EXCEPT !.success = success])

\* the rest of the handler that opened message box d, once the user answers it
AfterDialog(g, d, yes) ==
    IF d = "cancel" THEN (IF yes THEN Complete(g, FALSE) ELSE CloseDialog(g))
    ELSE IF d = "success" THEN Complete(g, TRUE)
    ELSE IF d = "retry" THEN (IF yes THEN _submit(CloseDialog(g)) ELSE CloseDialog(g))
    ELSE CloseDialog(g)

guiRest == <<hostVars, clock, detectorVars, system_data, printed, sleeps, attempt,
             upload_payload, scan_result, raised, exit_code>>

\* launch_questionnaire up to gui.run(): the window is built (the header shows
\* the identifier in display form), or building it raises and False is returned
LaunchQuestionnaire ==
    /\ pc = "launch"
    /\ \E built \in BOOLEAN, lib \in BOOLEAN, id \in AuditIds :
          IF built
          THEN /\ gui' = [gui EXCEPT !.window = "open", !.has_requests = lib]
               /\ audit_id' = PyStr(id)
               /\ shown' = PyStr(display_id(id))
               /\ pc' = "mainloop"
          ELSE /\ gui' = [gui EXCEPT !.returned = "False"]
               /\ pc' = "returned"
               /\ UNCHANGED <<audit_id, shown>>
    /\ UNCHANGED <<guiRest, requests>>

UiIdle == pc = "mainloop" /\ gui.window = "open" /\ gui.dialogs = <<>>

\* the user answers the questions that were still open
UserAnswers ==
    /\ UiIdle
    /\ ~gui.answered
    /\ gui' = [gui EXCEPT !.answered = TRUE]
    /\ UNCHANGED <<guiRest, pc, requests, audit_id, shown>>

\* a click on "Submit Questionnaire", which a disabled control ignores
ClickSubmit ==
    /\ UiIdle
    /\ gui.submit_btn = "normal"
    /\ SubmitAllowed
    /\ gui' = _submit(gui)
    /\ UNCHANGED <<guiRest, pc, requests, audit_id, shown>>

\* a click on "Cancel": _cancel up to its confirmation box
ClickCancel ==
    /\ UiIdle
    /\ gui' = [gui EXCEPT !.dialogs = Append(@, "cancel")]
    /\ UNCHANGED <<guiRest, pc, requests, audit_id, shown>>

\* the user answers the topmost message box
AnswerDialog ==
    /\ pc = "mainloop"
    /\ gui.window = "open"
    /\ gui.dialogs # <<>>
    /\ \E yes \in BOOLEAN :
          LET d == gui.dialogs[Len(gui.dialogs)]
          IN  /\ (d = "retry" /\ yes) => CanStart
              /\ gui' = AfterDialog(gui, d, yes)
    /\ UNCHANGED <<guiRest, pc, requests, audit_id, shown>>

\* the event loop runs the oldest callback handed over with root.after
RunAfterCallback ==
    /\ pc = "mainloop"
    /\ gui.window = "open"
    /\ gui.after_queue # <<>>
    /\ LET g == [gui EXCEPT !.after_queue = Tail(@)]
       IN  gui' = IF Head(gui.after_queue) = "success"
                  THEN _on_submit_success(g)
                  ELSE _on_submit_error(g)
    /\ UNCHANGED <<guiRest, pc, requests, audit_id, shown>>

\* _do_submit: the request of a submission thread is answered and the thread
\* hands the outcome to the UI thread; root.after on a destroyed window raises
\* in the thread, also from inside its handler of last resort
DoSubmit ==
    /\ gui.in_flight > 0
    /\ \E resp \in UploadResponses :
          /\ requests' = Append(requests,
                 Request("questionnaire", resp, questionnaire_member(audit_id)))
          /\ gui' = IF gui.window = "open"
                    THEN [gui EXCEPT !.in_flight = @ - 1,
                                     !.after_queue =
                                         Append(@, IF resp = "ok" THEN "success"
                                                   ELSE "error")]
                    ELSE [gui EXCEPT !.in_flight = @ - 1, !.thread_raised = TRUE]
    /\ UNCHANGED <<guiRest, pc, audit_id, shown>>

\* mainloop() ends once the window is destroyed: return result["success"]
MainloopReturns ==
    /\ pc = "mainloop"
    /\ gui.window = "destroyed"
    /\ gui' = [gui EXCEPT !.returned = IF gui.success THEN "True" ELSE "False"]
    /\ pc' = "returned"
    /\ UNCHANGED <<guiRest, requests, audit_id, shown>>

Next ==
    \/ CheckFirewall
    \/ CheckAntivirus
    \/ CheckDiskEncryption
    \/ GetUserAccounts
    \/ GetNetworkInfo
    \/ Assemble
    \/ DryRun
    \/ TestConnectivity
    \/ CreateAudit
    \/ SentinelCreateAudit
    \/ CheckAuditId
    \/ UploadSystemData
    \/ AfterScan
    \/ GuiSubmit
    \/ GuiClose
    \/ ExitMain
    \/ LaunchQuestionnaire
    \/ UserAnswers
    \/ ClickSubmit
    \/ ClickCancel
    \/ AnswerDialog
    \/ RunAfterCallback
    \/ DoSubmit
    \/ MainloopReturns

Spec == Init /\ [][Next]_vars

(***************************************************************************)
(* One run of run_system_scan, taken to its end                            *)
(***************************************************************************)
\* run_system_scan(server_url, dry_run) called on any machine
ScanInit ==
    \E c \in ScanCalls, s \in Systems, h \in MainHosts : InitWith(c, s, h)

\* the statements of run_system_scan and of the functions it calls
ScanNext ==
    \/ CheckFirewall
    \/ CheckAntivirus
    \/ CheckDiskEncryption
    \/ GetUserAccounts
    \/ GetNetworkInfo
    \/ Assemble
    \/ DryRun
    \/ TestConnectivity
    \/ CreateAudit
    \/ CheckAuditId
    \/ UploadSystemData

\* the call of get_user_accounts returns or raises: a GetUserAccounts step, and
\* possible exactly when GetUserAccounts is
AccountsCallEnds == pc = "users" /\ pc' \in {"network", "raised"}

\* the run is one thread: whenever its next statement can be executed it is,
\* every probe and every request having a timeout after which it returns
ScanSpec ==
    /\ ScanInit
    /\ [][ScanNext]_vars
    /\ WF_vars(CheckFirewall)
    /\ WF_vars(CheckAntivirus)
    /\ WF_vars(CheckDiskEncryption)
    /\ WF_pc(AccountsCallEnds)
    /\ WF_vars(GetNetworkInfo)
    /\ WF_vars(Assemble)
    /\ WF_vars(DryRun)
    /\ WF_vars(TestConnectivity)
    /\ WF_vars(CreateAudit)
    /\ WF_vars(CheckAuditId)
    /\ WF_vars(UploadSystemData)

(***************************************************************************)
(* Properties                                                              *)
(***************************************************************************)
Creates == SelectSeq(requests, LAMBDA r : r.op = "create")

AricaMain == call.entry = "main" /\ call.script = "arica"

\* the accounts a finished get_user_accounts call handed back
AccountsReturned ==
    \/ call.entry = "get_user_accounts" /\ pc = "returned"
    \/ system_data.set

\* the platform-specific listing could not be read at all
ListingFailed ==
    \/ system = "other"
    \/ system \in {"darwin", "linux"} /\ host.passwd.status # "ok"
    \/ system = "windows" /\ host.net_user.status # "ok"
                          /\ (call.script = "arica" => host.wmic.status # "ok")

FallbackOnly ==
    /\ Len(users) = 1
    /\ users[1].username = host.getuser.out
    /\ users[1].isAdmin
    /\ users[1].lastLogin.tag = "time"

\* C1: on every OS family and for every outcome of the external probes each of
\* the five detectors returns a result and collect_system_data returns a
\* snapshot: no probe failure leaves a detector or aborts the collection.
C1_NoProbeFailureEscapes ==
    raised \notin {"get_user_accounts", "get_network_info"}

\* C2: the list get_user_accounts returns is never empty; whenever the platform
\* listing yields no entry (it failed, the OS family is Other, or every account
\* was filtered out) the list is exactly one entry for the current user, with
\* isAdmin true and a lastLogin timestamp.
C2_UserAccountsNeverEmpty ==
    AccountsReturned =>
        /\ users # <<>>
        /\ ListingFailed => FallbackOnly
        /\ ListedUsers(call.script, system, host) = <<>> => FallbackOnly

\* C2 witness: a WMIC listing whose every account is filtered out gave the
\* single current-user entry
C2_Witness ==
    /\ call.entry = "get_user_accounts" /\ pc = "returned"
    /\ system = "windows" /\ call.script = "arica"
    /\ host.wmic.status = "ok"
    /\ Len(WmicDataLines(host.wmic.out)) = 2
    /\ FallbackOnly

NetworkReturned ==
    \/ call.entry = "get_network_info" /\ pc = "returned"
    \/ system_data.set

ReturnedAddresses ==
    IF system_data.set THEN system_data.networkInfo.ipAddresses ELSE network.ipAddresses

\* C3: whatever the interface enumeration reports, ipAddresses holds no address
\* twice, and when the hostname resolves its address is the first element.
C3_AddressesDistinctResolvedFirst ==
    NetworkReturned =>
        LET ips == ReturnedAddresses
        IN  /\ \A i, j \in 1..Len(ips) : i # j => ips[i] # ips[j]
            /\ host.gethostbyname.status = "ok" =>
                  ips # <<>> /\ ips[1] = host.gethostbyname.out

\* C3 witness: the enumeration reported one address twice and the resolved
\* address again, and two addresses were returned
C3_Witness ==
    /\ call.entry = "get_network_info" /\ pc = "returned"
    /\ host.gethostbyname.status = "ok"
    /\ host.psutil /\ host.net_if_addrs.status = "ok"
    /\ Len(host.net_if_addrs.out) = 3
    /\ host.net_if_addrs.out[1] = host.net_if_addrs.out[2]
    /\ host.net_if_addrs.out[1].family = "AF_INET"
    /\ host.net_if_addrs.out[3].address = host.gethostbyname.out
    /\ Len(network.ipAddresses) = 2

IdentifierReturned(r) ==
    /\ r.op = "create" /\ r.kind = "ok"
    /\ r.member.present
    /\ r.member.value.tag = "str"
    /\ r.member.value.str # <<>>

\* a request after which the scan cannot go on
FailedStep(r) ==
    \/ r.op = "dns" /\ r.kind # "resolved"
    \/ r.op = "create" /\ r.kind \notin {"ok", "conn_error"}
    \/ r.op = "create" /\ r.kind = "ok" /\ ~IdentifierReturned(r)
    \/ r.op = "upload" /\ r.kind # "ok"

\* C4: in a non-dry run of run_system_scan the steps come in the order
\* connectivity check, create, upload: create only after the check succeeded,
\* upload only after create returned an identifier, success only after the
\* upload succeeded, and nothing is attempted after a failed step.
C4_TransportOrder ==
    AricaMain =>
        /\ \A i \in 1..Len(requests) :
              LET r == requests[i]
              IN  /\ r.op = "dns" => i = 1
                  /\ r.op = "create" =>
                        /\ i > 1
                        /\ \/ requests[i-1].op = "dns" /\ requests[i-1].kind = "resolved"
                           \/ requests[i-1].op = "create" /\ requests[i-1].kind = "conn_error"
                  /\ r.op = "upload" => i > 1 /\ IdentifierReturned(requests[i-1])
                  /\ FailedStep(r) => i = Len(requests)
        /\ Len(Creates) <= call.max_retries
        /\ Truthy(scan_result) =>
              \E i \in 1..Len(requests) : requests[i].op = "upload" /\ requests[i].kind = "ok"

\* C4 witness: a scan that resolved the host, created the audit at the second
\* attempt, uploaded and returned the identifier
C4_Witness ==
    /\ AricaMain /\ pc = "scan_returned"
    /\ Truthy(scan_result)
    /\ Len(requests) = 4
    /\ requests[2].kind = "conn_error"
    /\ requests[4].op = "upload"

Min(a, b) == IF a < b THEN a ELSE b

\* create_audit (arica_toucan_agent) is over
CreateAuditReturned ==
    /\ call.script = "arica"
    /\ pc # "create"
    /\ call.entry = "create_audit" \/ Creates # <<>>

\* the responses so far are those of a server that fails with a connection
\* error a number of times and then answers with an identifier
FailThenSucceed ==
    /\ \A i \in 1..(Len(Creates) - 1) : Creates[i].kind = "conn_error"
    /\ Creates # <<>> =>
          \/ Creates[Len(Creates)].kind = "conn_error"
          \/ IdentifierReturned(Creates[Len(Creates)])

ConnFailures == Len(SelectSeq(Creates, LAMBDA r : r.kind = "conn_error"))

\* C5: against a server whose first N create requests fail with a connection
\* error and whose later ones succeed, create_audit with max_retries = M issues
\* exactly min(M, N+1) requests; it returns the identifier when N < M and
\* nothing, after exactly M attempts, when N >= M.
C5_CreateAttemptCount ==
    (CreateAuditReturned /\ FailThenSucceed) =>
        LET M == call.max_retries
            k == Len(Creates)
            N == ConnFailures
        IN  IF k > 0 /\ Creates[k].kind = "ok"
            THEN \* the server's N is the number of failures seen
                 /\ N < M
                 /\ k = Min(M, N + 1)
                 /\ audit_id = Creates[k].member.value
            ELSE \* every request failed: the server's N is at least k
                 /\ k = M
                 /\ audit_id = PyNone

\* C5 witness: max_retries = 3, two connection errors, then the identifier
C5_Witness ==
    /\ call.entry = "create_audit" /\ pc = "returned"
    /\ call.max_retries = 3
    /\ Len(Creates) = 3
    /\ ConnFailures = 2
    /\ audit_id = PyStr(<<"a","b","c","-","1","2","3","x","y">>)

\* C6: after the connection failure of attempt n < max_retries - 1 create_audit
\* waits exactly 2^n seconds; it does not wait after the last attempt, after a
\* success or after a failure of another kind.
C6_BackoffSchedule ==
    call.script = "arica" =>
        /\ \A i \in 1..Len(Creates) :
              (Creates[i].kind = "conn_error" /\ i - 1 < call.max_retries - 1) =>
                  /\ i <= Len(sleeps)
                  /\ sleeps[i] = [attempt |-> i - 1, seconds |-> 2^(i - 1)]
        /\ \A j \in 1..Len(sleeps) :
              /\ j <= Len(Creates)
              /\ Creates[j].kind = "conn_error"
              /\ sleeps[j].attempt = j - 1
              /\ sleeps[j].attempt < call.max_retries - 1

\* C6 witness: max_retries = 4 and four connection errors: waits of 1, 2 and 4
\* seconds and none after the last attempt
C6_Witness ==
    /\ call.entry = "create_audit" /\ pc = "returned"
    /\ call.max_retries = 4
    /\ ConnFailures = 4
    /\ sleeps = <<[attempt |-> 0, seconds |-> 1], [attempt |-> 1, seconds |-> 2],
                  [attempt |-> 2, seconds |-> 4]>>

NonConnectionFailures == {"read_timeout", "http_error", "bad_json", "non_object"}

\* C7: when an attempt of create_audit fails otherwise than by a connection
\* failure, create_audit returns no identifier at once: no further create
\* request, no wait, whatever the attempt index.
C7_NoRetryOnOtherFailure ==
    call.script = "arica" =>
        \A i \in 1..Len(Creates) :
            Creates[i].kind \in NonConnectionFailures =>
                /\ i = Len(Creates)
                /\ pc # "create"
                /\ audit_id = PyNone
                /\ \A j \in 1..Len(sleeps) : sleeps[j].attempt # i - 1

\* C7 witness: the second attempt got an HTTP error status and the call was over
\* after the one wait that preceded it
C7_Witness ==
    /\ call.entry = "create_audit" /\ pc = "returned"
    /\ call.max_retries = 4
    /\ Len(Creates) = 2
    /\ Creates[1].kind = "conn_error"
    /\ Creates[2].kind = "http_error"
    /\ Len(sleeps) = 1

\* a 2xx create answer whose auditId is absent, null or the empty string
WithoutIdentifier(r) ==
    /\ r.op = "create" /\ r.kind = "ok"
    /\ \/ ~r.member.present
       \/ r.member.value.tag = "none"
       \/ r.member.value.tag = "str" /\ r.member.value.str = <<>>

\* C8: a 2xx create answer whose auditId is absent, null or empty is a failed
\* audit creation in both scripts: no upload request, and the run fails.
C8_MissingIdentifierFails ==
    call.entry = "main" =>
        \A i \in 1..Len(requests) :
            WithoutIdentifier(requests[i]) =>
                /\ i = Len(requests)
                /\ ~upload_payload.sent
                /\ pc \notin {"upload", "questionnaire", "input_exit0"}
                /\ scan_result = PyNone
                /\ pc = "exited" => exit_code = 1

\* C8 witness: sentinel_agent got an empty auditId and exited with status 1
C8_Witness ==
    /\ call.entry = "main" /\ call.script = "sentinel"
    /\ pc = "exited" /\ exit_code = 1
    /\ requests # <<>>
    /\ requests[Len(requests)].member = [present |-> TRUE, value |-> PyStr(<<>>)]
    /\ WithoutIdentifier(requests[Len(requests)])

\* C9: at most one upload request is issued in a run: upload_system_data makes
\* one request and, on every kind of failure, returns false without a second
\* request and without raising.
C9_SingleUpload ==
    /\ Uploads <= 1
    /\ \A i \in 1..Len(requests) :
          (requests[i].op = "upload" /\ requests[i].kind # "ok") =>
              /\ i = Len(requests)
              /\ pc \in {"scan_returned", "input_exit0", "input_exit1", "exited"}
              /\ raised \in {"", "main"}
              /\ call.script = "arica" => scan_result = PyNone

\* C9 witness: the upload met a connection error and the run ended after that
\* one request
C9_Witness ==
    /\ pc = "exited"
    /\ Uploads = 1
    /\ requests[Len(requests)].op = "upload"
    /\ requests[Len(requests)].kind = "conn_error"

\* C10: when the DNS resolution of the server host fails, the check is not
\* repeated, no create and no upload request is issued, and the process exits
\* with status 1, in system mode and in full mode.
C10_DnsFailureEndsRun ==
    AricaMain =>
        \A i \in 1..Len(requests) :
            (requests[i].op = "dns" /\ requests[i].kind # "resolved") =>
                /\ Len(requests) = 1
                /\ pc \in {"scan_returned", "input_exit1", "exited"}
                /\ scan_result = PyNone
                /\ pc = "exited" => exit_code = 1

\* C10 witness: full mode, the resolution failed, and the process has exited
\* with status 1 after that single lookup
C10_Witness ==
    /\ AricaMain /\ call.mode = "full"
    /\ pc = "exited" /\ exit_code = 1
    /\ requests = <<Request("dns", "gaierror", NoMember)>>

(***************************************************************************)
(* C11..C20                                                                *)
(***************************************************************************)
\* the position of the create request that gave the identifier in use at
\* position i of the request log: the last create request before i
LastCreateBefore(i) ==
    CHOOSE j \in 0..(i - 1) :
        /\ j > 0 => requests[j].op = "create"
        /\ \A k \in (j + 1)..(i - 1) : requests[k].op # "create"

\* C11: whenever an upload request is issued, the auditId it carries is exactly
\* the identifier the successful create request of the same run returned, also
\* after retries, and not the truncated, upper-cased form that is displayed
C11_UploadCarriesCreatedId ==
    /\ \A i \in 1..Len(requests) :
          requests[i].op = "upload" =>
             LET j == LastCreateBefore(i)
             IN  /\ j > 0
                 /\ requests[j].kind = "ok"
                 /\ requests[j].member.present
                 /\ requests[j].member.value.tag = "str"
                 /\ requests[i].member = requests[j].member
    /\ upload_payload.sent =>
          /\ Uploads > 0
          /\ \E i \in 1..Len(requests) :
                /\ requests[i].op = "upload"
                /\ upload_payload.auditId = requests[i].member.value
                /\ upload_payload.systemData = system_data

\* an upload after a create that succeeded on a retry, with an identifier
\* whose display form differs from it
C11_Witness ==
    /\ Uploads = 1
    /\ Len(Creates) >= 2
    /\ upload_payload.auditId = PyStr(<<"a","b","c","-","1","2","3","x","y">>)
    /\ shown = PyStr(<<"A","B","C","-","1","2","3","X">>)

\* the request log up to position i holds a successful create followed by a
\* successful upload of the identifier it returned
ScanSucceededBefore(i) ==
    LET j == LastCreateBefore(i)
    IN  /\ j > 0
        /\ requests[j].kind = "ok"
        /\ \E u \in (j + 1)..(i - 1) :
              /\ requests[u].op = "upload"
              /\ requests[u].kind = "ok"
              /\ requests[u].member = requests[j].member

\* C12: in full mode the questionnaire stage starts only after create and upload
\* both succeeded, every questionnaire submission carries the identifier the
\* create request of the run returned, and after a failed create or upload no
\* questionnaire submission is sent
C12_QuestionnaireAfterScan ==
    call.entry = "main" =>
       /\ pc = "questionnaire" =>
             /\ call.mode = "full"
             /\ ScanSucceededBefore(Len(requests) + 1)
       /\ \A i \in 1..Len(requests) :
             requests[i].op = "questionnaire" =>
                /\ call.mode = "full"
                /\ ScanSucceededBefore(i)
                /\ requests[i].member = requests[LastCreateBefore(i)].member
                /\ requests[i].member.value.tag = "str"
       /\ ((\E i \in 1..Len(requests) : FailedStep(requests[i]))
           \/ (/\ Len(Creates) = call.max_retries
               /\ \A i \in 1..Len(Creates) : Creates[i].kind = "conn_error"))
            => Submissions = 0

\* a full run that sent the questionnaire twice, the second time with success,
\* for an identifier whose display form differs from it
C12_Witness ==
    /\ call.entry = "main"
    /\ Submissions = 2
    /\ requests[Len(requests)].op = "questionnaire"
    /\ requests[Len(requests)].kind = "ok"
    /\ requests[Len(requests)].member.value = PyStr(<<"a","b","c","-","1","2","3","x","y">>)
    /\ pc = "input_exit0"

\* the run is over: the process ended or the function called directly came back
RunEnded == pc \in {"exited", "raised", "returned", "scan_returned"}

\* in a dry run nothing is sent, and nothing but the collection and the print
\* is ever reached
DryRunSendsNothing ==
    call.dry_run =>
       /\ requests = <<>>
       /\ ~upload_payload.sent
       /\ pc \notin {"connectivity", "create", "check_audit_id", "upload", "questionnaire"}
       /\ printed => system_data.set

\* C13: in a dry run of either script, and of run_system_scan with dry_run set,
\* the snapshot is collected and printed and no request is issued to the server
C13_DryRunPrintsSendsNothing ==
    /\ DryRunSendsNothing
    /\ (call.dry_run /\ RunEnded) => (system_data.set /\ printed)

\* how the probe recorded under the given name ended on this machine
ProbeStatusOf(name) ==
    IF name = "netsh" THEN host.netsh.status
    ELSE IF name = "socketfilterfw" THEN host.socketfilterfw.status
    ELSE IF name = "ufw" THEN host.ufw.status
    ELSE IF name = "iptables" THEN host.iptables.status
    ELSE IF name = "winreg" THEN host.winreg.status
    ELSE IF name = "manage-bde" THEN host.manage_bde.status
    ELSE IF name = "fdesetup" THEN host.fdesetup.status
    ELSE IF name = "lsblk" THEN host.lsblk.status
    ELSE IF name = "wmic" THEN host.wmic.status
    ELSE IF name = "net user" THEN host.net_user.status
    ELSE IF name = "net localgroup" THEN host.net_localgroup.status
    ELSE IF name = "passwd" THEN host.passwd.status
    ELSE host.which[CHOOSE k \in 1..Len(av_tools) : av_tools[k].tool = name]

\* every probe in the sequence failed or timed out
AllFailed(probes) == \A i \in 1..Len(probes) : ProbeStatusOf(probes[i]) \in Failures

\* some probe in the sequence failed or timed out
SomeFailed(probes) == \E i \in 1..Len(probes) : ProbeStatusOf(probes[i]) \in Failures

\* a snapshot collected on a machine where every probe the detectors invoked
\* failed
UnreachableSnapshot == system_data.set /\ AllFailed(probed)

\* C14 as stated: on a host of any OS family where every external probe fails
\* the snapshot has firewallEnabled, antivirusInstalled and
\* diskEncryptionEnabled false and a non-empty userAccounts list
C14_AllFlagsFalse ==
    UnreachableSnapshot =>
       /\ ~system_data.firewall.firewallEnabled
       /\ ~system_data.antivirus.antivirusInstalled
       /\ ~system_data.encryption.diskEncryptionEnabled
       /\ system_data.userAccounts # <<>>

\* C14 amended: on such a host firewallEnabled and diskEncryptionEnabled are
\* false and userAccounts is non-empty; antivirusInstalled is false on Windows,
\* Linux and Other, and true on macOS, where the built-in protection is
\* reported without any probe
C14_FlagsOnUnreachableHost ==
    UnreachableSnapshot =>
       /\ ~system_data.firewall.firewallEnabled
       /\ system_data.antivirus.antivirusInstalled = (system = "darwin")
       /\ ~system_data.encryption.diskEncryptionEnabled
       /\ system_data.userAccounts # <<>>

\* a snapshot of a macOS machine whose two probes failed and whose account
\* listing was unreadable
C14_Witness ==
    /\ UnreachableSnapshot
    /\ system = "darwin"
    /\ probed = <<"socketfilterfw", "fdesetup", "passwd">>
    /\ Len(system_data.userAccounts) = 1
    /\ system_data.antivirus.antivirusInstalled

\* the scan of this run failed: a step failed, or every attempt to create the
\* audit ended in a connection error
ScanFailed ==
    \/ \E i \in 1..Len(requests) : FailedStep(requests[i])
    \/ /\ Len(Creates) = call.max_retries
       /\ \A i \in 1..Len(Creates) : Creates[i].kind = "conn_error"

UploadSucceeded ==
    \E i \in 1..Len(requests) : requests[i].op = "upload" /\ requests[i].kind = "ok"

\* the exit codes of a finished non-dry run of the given script
ExitCodesOf(script) ==
    (call.entry = "main" /\ call.script = script /\ ~call.dry_run /\ pc = "exited") =>
       /\ ScanFailed => exit_code = 1
       /\ exit_code = 0 => UploadSucceeded

\* arica_toucan_agent alone keeps to the exit codes
AricaExitCodes == ExitCodesOf("arica")

\* C15: a non-dry run of either script ends with exit code 1 whenever the DNS
\* check, the audit creation or the upload fails, and with exit code 0 only if
\* the upload succeeded
C15_ExitCodes == ExitCodesOf("arica") /\ ExitCodesOf("sentinel")

\* the detector has returned in this run
DetectorsRun == call.entry \in {"main", "run_system_scan", "collect_system_data"}
FirewallChecked == DetectorsRun /\ pc # "firewall"
AntivirusChecked == DetectorsRun /\ pc \notin {"firewall", "antivirus"}
EncryptionChecked == DetectorsRun /\ pc \notin {"firewall", "antivirus", "encryption"}

NoDetectorRaised ==
    raised \notin {"check_firewall_status", "check_antivirus_status",
                   "check_disk_encryption"}

\* C16 as stated: for every OS family and each of the three detectors, whenever
\* any one of the probes the detector invokes fails or times out, its positive
\* flag is false in the result, and the detector does not raise
C16_AnyFailureClearsFlag ==
    /\ (FirewallChecked /\ SomeFailed(firewall_probes(system, host)))
          => ~firewall.firewallEnabled
    /\ (AntivirusChecked /\ SomeFailed(antivirus_probes(system, host)))
          => ~antivirus.antivirusInstalled
    /\ (EncryptionChecked /\ SomeFailed(encryption_probes(system)))
          => ~encryption.diskEncryptionEnabled
    /\ NoDetectorRaised

\* C16 amended: for every OS family and each of the three detectors, whenever
\* every probe the detector invokes fails or times out, its positive flag is
\* false in the result, and the detector does not raise
C16_AllFailuresClearFlag ==
    /\ (FirewallChecked /\ firewall_probes(system, host) # <<>>
        /\ AllFailed(firewall_probes(system, host)))
          => ~firewall.firewallEnabled
    /\ (AntivirusChecked /\ antivirus_probes(system, host) # <<>>
        /\ AllFailed(antivirus_probes(system, host)))
          => ~antivirus.antivirusInstalled
    /\ (EncryptionChecked /\ encryption_probes(system) # <<>>
        /\ AllFailed(encryption_probes(system)))
          => ~encryption.diskEncryptionEnabled
    /\ NoDetectorRaised

\* the three detectors have returned on a Linux machine where ufw timed out and
\* iptables, every `which` and lsblk failed
C16_Witness ==
    /\ EncryptionChecked
    /\ system = "linux"
    /\ host.ufw.status = "timeout"
    /\ probed = <<"ufw", "iptables", "clamav", "sophos", "crowdstrike", "lsblk">>
    /\ AllFailed(probed)
    /\ ~firewall.firewallEnabled
    /\ ~antivirus.antivirusInstalled
    /\ ~encryption.diskEncryptionEnabled

\* while a submission is in flight or its outcome waits to be run by the UI
\* thread, the submit control of the open window is disabled; never two
\* submissions in flight
OneSubmissionInFlight ==
    /\ gui.in_flight <= 1
    /\ (gui.window = "open" /\ (gui.in_flight > 0 \/ gui.after_queue # <<>>))
          => gui.submit_btn = "disabled"

\* the submit control goes from disabled to enabled only when the UI thread
\* runs the error callback a submission thread handed over
EnabledOnlyByErrorHandOff ==
    (gui.submit_btn = "disabled" /\ gui'.submit_btn = "normal") =>
       /\ gui.after_queue # <<>>
       /\ Head(gui.after_queue) = "error"
       /\ gui'.after_queue = Tail(gui.after_queue)

\* C17: in the standalone questionnaire window at most one submission worker is
\* in flight at any time under every interleaving of clicks, worker completion
\* and UI callbacks: the submit control is disabled from the start of a
\* submission until its outcome has been handed to the UI thread, and only the
\* error hand-off enables it again
C17_SingleWorker == []OneSubmissionInFlight /\ [][EnabledOnlyByErrorHandOff]_vars

\* a second submission in flight, started after the first one failed and was
\* handed back, while the user has the cancel confirmation open
C17_Witness ==
    /\ call.entry = "launch_questionnaire"
    /\ Submissions = 1
    /\ requests[1].kind # "ok"
    /\ gui.in_flight = 1
    /\ gui.submit_btn = "disabled"
    /\ gui.dialogs = <<"cancel">>

\* the server accepted a submit-questionnaire request of this session
Accepted ==
    \E i \in 1..Len(requests) :
       requests[i].op = "questionnaire" /\ requests[i].kind = "ok"

\* C18: launch_questionnaire returns True if the server accepted a submission of
\* the session and False otherwise, under every interleaving of Submit and
\* Cancel with the submission worker, also when Cancel is confirmed while a
\* submission is in flight
C18_ReturnsAcceptance ==
    (call.entry = "launch_questionnaire" /\ gui.returned # "none") =>
       (gui.returned = "True" <=> Accepted)

\* launch_questionnaire never returns True without an accepted submission
ReturnsTrueOnlyIfAccepted ==
    (call.entry = "launch_questionnaire" /\ gui.returned = "True") => Accepted

\* the accounts get_user_accounts returned, in a direct call or in the snapshot
ReturnedAccounts == IF system_data.set THEN system_data.userAccounts ELSE users

\* C19: every entry of the userAccounts list get_user_accounts produces has a
\* non-empty username, for every content of the account listing on every OS
\* family, also for an account-database line whose name field is empty
C19_UsernamesNonEmpty ==
    AccountsReturned =>
       \A i \in 1..Len(ReturnedAccounts) : ReturnedAccounts[i].username # <<>>

\* the Windows listings alone never give an entry without a name
WindowsUsernamesNonEmpty ==
    (AccountsReturned /\ system = "windows") =>
       \A i \in 1..Len(ReturnedAccounts) : ReturnedAccounts[i].username # <<>>

\* the status word of a `ufw status` output, "Status: <word>", is "active"
UfwReportsActive(out) ==
    LET parts == SplitOn(out, ":")
    IN  Len(parts) >= 2 /\ Strip(parts[2]) = <<"a","c","t","i","v","e">>

Probed(name) == \E i \in 1..Len(probed) : probed[i] = name

\* ufw is queried first and iptables only after ufw failed; the outcome of the
\* iptables listing decides the result then
LinuxFirewallFallback ==
    (FirewallChecked /\ system = "linux") =>
       /\ probed[1] = "ufw"
       /\ Probed("iptables") <=> host.ufw.status \in Failures
       /\ (host.ufw.status \in Failures /\ host.iptables.status = "ok")
             => firewall = FirewallResult(TRUE, "iptables configured")
       /\ (host.ufw.status \in Failures /\ host.iptables.status \in Failures)
             => firewall = FirewallResult(FALSE, "No firewall detected")

\* C20: on Linux check_firewall_status queries ufw first and probes iptables
\* only if the ufw query fails; when ufw answers, active or inactive, iptables is
\* not probed and the result follows ufw alone; when ufw fails the result is
\* firewallEnabled with "iptables configured" if the iptables listing succeeds
\* and not firewallEnabled with "No firewall detected" if it fails too
C20_LinuxFirewall ==
    /\ LinuxFirewallFallback
    /\ (FirewallChecked /\ system = "linux" /\ host.ufw.status = "ok") =>
          /\ ~Probed("iptables")
          /\ firewall.firewallEnabled <=> UfwReportsActive(host.ufw.out)

(***************************************************************************)
(* The OS family that is none of Windows, macOS and Linux                  *)
(***************************************************************************)
\* the entry get_user_accounts appends when no account was listed
IsCurrentUserFallback(entry) ==
    /\ entry.username = host.getuser.out
    /\ entry.isAdmin
    /\ entry.lastLogin.tag = "time"

\* C21: when the OS family is Other, no detector runs a command, reads the
\* registry or opens the account database; the firewall, endpoint-protection
\* and disk-encryption results are the undetermined defaults (flag false,
\* firewall status "Unknown", antivirus status "Not detected", no encryption
\* method) and the account list is the current-user fallback alone
C21_OtherFamilyProbesNothing ==
    system = "other" =>
       /\ probed = <<>>
       /\ FirewallChecked => firewall = FirewallResult(FALSE, "Unknown")
       /\ AntivirusChecked =>
             antivirus = AntivirusResult(FALSE, UnsetField(call.script), "Not detected")
       /\ EncryptionChecked =>
             encryption = EncryptionResult(FALSE, UnsetField(call.script))
       /\ AccountsReturned =>
             /\ Len(ReturnedAccounts) = 1
             /\ IsCurrentUserFallback(ReturnedAccounts[1])

\* a snapshot assembled on the Other family, on a machine whose account
\* database lists an account and whose tools would all have answered
C21_Witness ==
    /\ system = "other"
    /\ system_data.set
    /\ host = ProtectedHost
    /\ probed = <<>>
    /\ Len(system_data.userAccounts) = 1

(***************************************************************************)
(* The endpoint-protection candidates on Linux                             *)
(***************************************************************************)
AvCandidates == <<"clamav", "sophos", "crowdstrike">>

IsAvCandidate(name) == \E k \in 1..Len(AvCandidates) : AvCandidates[k] = name

\* the existence checks check_antivirus_status ran, in the order it ran them
AvProbed == SelectSeq(probed, IsAvCandidate)

\* the candidates whose existence check succeeds on this machine
AvPresent == {k \in 1..Len(AvCandidates) : host.which[k] = "ok"}

\* C22: on Linux check_antivirus_status probes clamav, sophos, crowdstrike in
\* that order and reports the first candidate whose existence check succeeds;
\* no candidate after the first match is probed, a failed or timed-out check
\* does not keep the later candidates from being probed, and with no match
\* the result is antivirusInstalled=false with status "No antivirus detected"
C22_LinuxFirstMatch ==
    (AntivirusChecked /\ system = "linux") =>
       /\ Len(AvProbed) <= Len(AvCandidates)
       /\ \A k \in 1..Len(AvProbed) : AvProbed[k] = AvCandidates[k]
       /\ \A k \in 1..Len(AvCandidates) :
             k <= Len(AvProbed) <=> \A j \in 1..(k - 1) : host.which[j] \in Failures
       /\ \A k \in AvPresent :
             (\A j \in AvPresent : k <= j) =>
                /\ antivirus.antivirusInstalled
                /\ antivirus.antivirusName = Text(av_tools[k].name)
                /\ antivirus.antivirusStatus = av_tools[k].status
       /\ AvPresent = {} =>
             antivirus = AntivirusResult(FALSE, UnsetField(call.script),
                                         "No antivirus detected")

\* the first check timed out, the second failed, the third found its tool
C22_Witness ==
    /\ AntivirusChecked
    /\ system = "linux"
    /\ host.which = <<"timeout", "error", "ok">>
    /\ AvProbed = AvCandidates
    /\ antivirus.antivirusName = Text("CrowdStrike Falcon")

\* the first candidate is found and the two after it are not asked for
C22_WitnessFirstMatch ==
    /\ AntivirusChecked
    /\ system = "linux"
    /\ host.which = <<"ok", "ok", "error">>
    /\ AvProbed = <<"clamav">>

(***************************************************************************)
(* The disk-encryption result                                              *)
(***************************************************************************)
\* the command check_disk_encryption runs on this family and the text that
\* its output has to hold for the disk to count as encrypted
EncryptionProbe ==
    IF system = "windows" THEN host.manage_bde
    ELSE IF system = "darwin" THEN host.fdesetup
    ELSE host.lsblk

EncryptionMarkers ==
    IF system = "windows"
    THEN {<<"P","r","o","t","e","c","t","i","o","n"," ","O","n">>,
          <<"P","e","r","c","e","n","t","a","g","e"," ","E","n","c","r","y","p","t","e","d">>}
    ELSE IF system = "darwin"
    THEN {<<"F","i","l","e","V","a","u","l","t"," ","i","s"," ","O","n">>}
    ELSE {<<"c","r","y","p","t">>}

EncryptionMarkerMissing ==
    \A m \in EncryptionMarkers : ~Contains(EncryptionProbe.out, m)

\* C23: on every OS family that has a disk-encryption probe, when the probe
\* fails, times out or its output lacks the expected marker, the result is
\* diskEncryptionEnabled=false with no encryption method set; and whatever the
\* outcome, the result has no status text: its only keys are the flag and
\* the method, while the firewall and antivirus results have a status text
C23_EncryptionUndetermined ==
    EncryptionChecked =>
       /\ DOMAIN encryption = {"diskEncryptionEnabled", "diskEncryptionMethod"}
       /\ ( /\ system \in {"windows", "darwin", "linux"}
            /\ EncryptionProbe.status \in Failures \/ EncryptionMarkerMissing )
          => /\ ~encryption.diskEncryptionEnabled
             /\ encryption.diskEncryptionMethod.tag # "text"
       /\ firewall.firewallStatus # ""
       /\ antivirus.antivirusStatus # ""

\* manage-bde answered, and neither marker is in its answer
C23_Witness ==
    /\ EncryptionChecked
    /\ system = "windows"
    /\ host.manage_bde = Probe("ok", <<"P","r","o","t","e","c","t","i","o","n"," ","O","f","f">>)
    /\ ~encryption.diskEncryptionEnabled

(***************************************************************************)
(* The accounts listed from the account database on macOS and Linux        *)
(***************************************************************************)
PasswdRead ==
    /\ AccountsReturned
    /\ system \in {"darwin", "linux"}
    /\ host.passwd.status = "ok"

PasswdFields(line) == SplitOn(Strip(line), ":")

\* a line with the seven fields of an account and an integer uid
WellFormedLine(line) ==
    /\ Len(PasswdFields(line)) >= 7
    /\ IsIntText(PasswdFields(line)[3])

\* a line with the seven fields of an account whose uid is not an integer
BadUidLine(line) ==
    /\ Len(PasswdFields(line)) >= 7
    /\ ~IsIntText(PasswdFields(line)[3])

\* the inclusion rule: uid >= 1000 or uid = 0, and a shell that is none of
\* /usr/sbin/nologin, /bin/false, /sbin/nologin
IncludedLine(line) ==
    /\ WellFormedLine(line)
    /\ LET uid == IntOf(PasswdFields(line)[3])
           shell == PasswdFields(line)[7]
       IN  /\ uid >= 1000 \/ uid = 0
           /\ shell \notin {<<"/","u","s","r","/","s","b","i","n","/","n","o","l","o","g","i","n">>,
                            <<"/","b","i","n","/","f","a","l","s","e">>,
                            <<"/","s","b","i","n","/","n","o","l","o","g","i","n">>}

\* username and isAdmin of the account of an included line
AccountOfLine(line) ==
    LET uid == IntOf(PasswdFields(line)[3])
    IN  [username |-> PasswdFields(line)[1],
         isAdmin |-> (uid = 0 \/ uid \in {501, 1000})]

\* the accounts of the included lines among lines, in the order of the lines
AccountsOfLines(lines) ==
    LET included == SelectSeq(lines, IncludedLine)
    IN  [i \in 1..Len(included) |-> AccountOfLine(included[i])]

\* username and isAdmin of the returned accounts, in order
ReturnedNamesAndRoles ==
    [i \in 1..Len(ReturnedAccounts) |->
        [username |-> ReturnedAccounts[i].username,
         isAdmin |-> ReturnedAccounts[i].isAdmin]]

\* the lines the loop reads: those before the first line whose uid is not an
\* integer
LinesRead(lines) ==
    LET bad == {i \in 1..Len(lines) : BadUidLine(lines[i])}
    IN  IF bad = {} THEN lines
        ELSE SubSeq(lines, 1, (CHOOSE i \in bad : \A j \in bad : i <= j) - 1)

\* C24 as stated: on macOS and Linux, for every well-formed line of the account
\* database the account is in the result iff (uid >= 1000 or uid = 0) and its
\* shell is not a non-interactive one, isAdmin of an included account is true
\* iff uid = 0 or uid is 501 or 1000, and the included accounts keep the order
\* of the lines (a database none of whose lines is included leaves the result
\* to the current-user fallback)
C24_PasswdFilter ==
    (PasswdRead /\ AccountsOfLines(host.passwd.out) # <<>>) =>
       ReturnedNamesAndRoles = AccountsOfLines(host.passwd.out)

\* what holds instead: the same of the lines that no line with a non-integer uid
\* precedes, and of the accounts listed from the database; when none is
\* listed the result is the current-user entry alone
PasswdFilterOfLinesRead ==
    PasswdRead =>
       LET listed == AccountsOfLines(LinesRead(host.passwd.out))
       IN  IF listed # <<>>
           THEN /\ ReturnedNamesAndRoles = listed
                /\ \A i \in 1..Len(ReturnedAccounts) :
                      ReturnedAccounts[i].lastLogin.tag # "time"
           ELSE /\ Len(ReturnedAccounts) = 1
                /\ IsCurrentUserFallback(ReturnedAccounts[1])

\* two accounts listed in the order of their lines, an ordinary user and
\* then the administrator
C24_Witness ==
    /\ PasswdRead
    /\ Len(ReturnedAccounts) = 2
    /\ ~ReturnedAccounts[1].isAdmin
    /\ ReturnedAccounts[2].isAdmin

(***************************************************************************)
(* The accounts listed on Windows by arica_toucan_agent                    *)
(***************************************************************************)
WindowsListed ==
    /\ AccountsReturned
    /\ system = "windows"
    /\ call.script = "arica"

\* the structured query answered; the legacy listing answered after the
\* structured query failed
StructuredPath == WindowsListed /\ host.wmic.status = "ok"
LegacyPath ==
    WindowsListed /\ host.wmic.status \in Failures /\ host.net_user.status = "ok"

\* the entries of the result that come from a listing: all of them, unless the
\* result is the current-user fallback entry
ListedEntries ==
    IF Len(ReturnedAccounts) = 1 /\ ReturnedAccounts[1].lastLogin.tag = "time"
    THEN <<>>
    ELSE ReturnedAccounts

\* the non-empty, non-trailer lines after the line of dashes of the
\* administrator-group output, lower-cased
AdminMembers ==
    IF host.net_localgroup.status # "ok" THEN {}
    ELSE LET out == host.net_localgroup.out
             dashes == {i \in 1..Len(out) : Contains(out[i], <<"-","-","-","-">>)}
         IN  {Lower(Strip(out[j])) :
                 j \in {j \in 1..Len(out) :
                          /\ \E i \in dashes : i < j
                          /\ j \notin dashes
                          /\ Strip(out[j]) # <<>>
                          /\ ~StartsWith(Strip(out[j]), <<"T","h","e"," ","c","o","m","m","a","n","d">>)}}

\* the accounts of the rows of the structured listing
AccountsInListing ==
    {a \in WmicAccounts : \E i \in 1..Len(host.wmic.out) : host.wmic.out[i] = WmicRow(a)}

NotSystemAccount(username) == Lower(username) \notin WINDOWS_SYSTEM_ACCOUNTS

AdminIffMember(entry) == entry.isAdmin <=> Lower(entry.username) \in AdminMembers

\* C25: on Windows, on the structured-query path and on the legacy-listing
\* path, every listed account other than the current-user fallback has a
\* username that is not in the system-account denylist, compared
\* case-insensitively, is not flagged disabled, and has isAdmin true iff its
\* lower-cased username is one of the member lines of the administrator-group
\* output
C25_WindowsListedAccounts ==
    /\ StructuredPath =>
          \A k \in 1..Len(ListedEntries) :
             /\ NotSystemAccount(ListedEntries[k].username)
             /\ AdminIffMember(ListedEntries[k])
             /\ \E a \in AccountsInListing :
                   /\ a.Name = ListedEntries[k].username
                   /\ a.Disabled # <<"T","R","U","E">>
    /\ LegacyPath =>
          \A k \in 1..Len(ListedEntries) :
             /\ NotSystemAccount(ListedEntries[k].username)
             /\ AdminIffMember(ListedEntries[k])

\* what holds instead on the structured-query path: every listed entry is the
\* first word of the name of an account of the listing, and the test for
\* disabled reads the second word of the row
WindowsListedFirstWords ==
    StructuredPath =>
       \A k \in 1..Len(ListedEntries) :
          /\ NotSystemAccount(ListedEntries[k].username)
          /\ AdminIffMember(ListedEntries[k])
          /\ \E a \in AccountsInListing :
                /\ Split(a.Name)[1] = ListedEntries[k].username
                /\ Upper(Split(WmicRow(a))[2]) # <<"T","R","U","E">>

\* a listing of accounts whose names are single words: an administrator is
\* listed, the disabled account is not
C25_PlainNamesListed ==
    /\ StructuredPath
    /\ \A a \in AccountsInListing : Len(Split(a.Name)) = 1
    /\ \E a \in AccountsInListing : a.Disabled = <<"T","R","U","E">>
    /\ Len(ListedEntries) = 1
    /\ ListedEntries[1].isAdmin

\* on the legacy path no listed entry is a system account, and isAdmin follows
\* the member lines
LegacyListedAccounts ==
    LegacyPath =>
       \A k \in 1..Len(ListedEntries) :
          /\ NotSystemAccount(ListedEntries[k].username)
          /\ AdminIffMember(ListedEntries[k])

(***************************************************************************)
(* Independence of the detectors                                           *)
(***************************************************************************)
\* machine t with the outcomes of one detector's probes taken from this run's
\* machine: the machine of a second run that agrees with this one on that
\* detector's probes and differs on the probes of the other four
WithFirewallProbes(t) ==
    [t EXCEPT !.netsh = host.netsh, !.socketfilterfw = host.socketfilterfw,
              !.ufw = host.ufw, !.iptables = host.iptables]
WithAntivirusProbes(t) == [t EXCEPT !.winreg = host.winreg, !.which = host.which]
WithEncryptionProbes(t) ==
    [t EXCEPT !.manage_bde = host.manage_bde, !.fdesetup = host.fdesetup,
              !.lsblk = host.lsblk]
WithAccountProbes(t) ==
    [t EXCEPT !.wmic = host.wmic, !.net_user = host.net_user,
              !.net_localgroup = host.net_localgroup, !.passwd = host.passwd,
              !.getuser = host.getuser]
WithNetworkProbes(t) ==
    [t EXCEPT !.gethostname = host.gethostname, !.gethostbyname = host.gethostbyname,
              !.psutil = host.psutil, !.net_if_addrs = host.net_if_addrs]

\* a machine every probe of which times out
TimedOutHost ==
    [BareHost EXCEPT
        !.netsh = Probe("timeout", <<>>), !.socketfilterfw = Probe("timeout", <<>>),
        !.ufw = Probe("timeout", <<>>), !.iptables = Probe("timeout", <<>>),
        !.which = [i \in 1..3 |-> "timeout"],
        !.manage_bde = Probe("timeout", <<>>), !.fdesetup = Probe("timeout", <<>>),
        !.lsblk = Probe("timeout", <<>>), !.wmic = Probe("timeout", <<>>),
        !.net_user = Probe("timeout", <<>>), !.net_localgroup = Probe("timeout", <<>>)]

\* the machines the other probes of a second run are taken from
OtherMachines == MainHosts \cup {TimedOutHost}

\* a second run on machine h returns a snapshot
Collects(h) ==
    /\ ~get_user_accounts(call.script, system, h, 0).raised
    /\ ~get_network_info(h).raised

\* the snapshot as collect_system_data hands it over, before anything is sent
SnapshotAssembled ==
    /\ system_data.set
    /\ requests = <<>>
    /\ pc \in {"returned", "dry_run", "connectivity", "create"}

\* the time get_user_accounts read for the fallback entry of this run
AccountsReadAt ==
    IF system_data.userAccounts # <<>> /\ system_data.userAccounts[1].lastLogin.tag = "time"
    THEN system_data.userAccounts[1].lastLogin.at
    ELSE 0

ScanRun ==
    /\ call.script = "arica"
    /\ call.entry \in {"main", "run_system_scan"}

\* the connectivity check is next or over, or a request has been sent
PastCollection ==
    \/ pc \in {"dry_run", "connectivity", "create", "check_audit_id", "upload",
               "scan_returned"} /\ raised = ""
    \/ requests # <<>>
    \/ sleeps # <<>>

\* nothing is sent and nothing is waited for before the snapshot is there
CollectedBeforeTransport == (ScanRun /\ PastCollection) => system_data.set

\* the upload request carries the snapshot as assembled
UploadCarriesSnapshot ==
    (ScanRun /\ upload_payload.sent) => upload_payload.systemData = system_data

\* the snapshot is written once, by the assembly with which
\* collect_system_data returns, and no later step writes it
SnapshotWrittenOnce ==
    ScanRun =>
       /\ system_data.set => system_data' = system_data
       /\ system_data' # system_data =>
             /\ pc = "assemble"
             /\ requests = <<>>
             /\ sleeps = <<>>
             /\ system_data' = Snapshot(firewall, antivirus, encryption, users,
                                        network, clock)

\* C27: in one run of run_system_scan the snapshot is collected exactly once,
\* before the connectivity check and before any request, and no later step
\* (connectivity check, create attempts, backoff waits, upload) modifies it;
\* the systemData of the upload request is the snapshot as assembled, with
\* the same detector results and the same collectedAt
C27_SnapshotFrozen ==
    /\ [](CollectedBeforeTransport /\ UploadCarriesSnapshot)
    /\ [][SnapshotWrittenOnce]_vars

\* an upload sent after a create attempt that failed and was waited for
C27_Witness ==
    /\ ScanRun
    /\ upload_payload.sent
    /\ sleeps # <<>>
    /\ upload_payload.systemData.collectedAt = system_data.collectedAt
    /\ upload_payload.systemData.firewall = firewall

(***************************************************************************)
(* Termination of run_system_scan                                          *)
(***************************************************************************)
\* run_system_scan has returned an audit id or None, or an exception has
\* left it
ScanEnded ==
    \/ pc = "scan_returned" /\ scan_result.tag \in {"str", "none"}
    \/ pc = "raised"

\* the most probes one run makes: two for the firewall, three for the
\* endpoint protection, one for the disk encryption, three for the accounts
MostProbes == 2 + Len(av_tools) + 1 + 3

ProbesBounded == Len(probed) <= MostProbes

CreatesBounded == Len(Creates) <= call.max_retries

\* C28: every probe and every request returning or timing out, every run of
\* run_system_scan reaches a terminal outcome, an audit id returned or a
\* failure; each detector finishes after a bounded number of probes and
\* create_audit after at most max_retries attempts
C28_ScanTerminates ==
    /\ <>ScanEnded
    /\ [](ProbesBounded /\ CreatesBounded)

\* a run that returns the audit id after two create attempts that failed and
\* were waited for
C28_Witness ==
    /\ call.entry = "run_system_scan"
    /\ pc = "scan_returned"
    /\ scan_result.tag = "str"
    /\ Len(sleeps) = 2
    /\ Len(Creates) = call.max_retries

(***************************************************************************)
(* The optional fields of a snapshot                                       *)
(***************************************************************************)
\* an optional key that is present with a value other than None
IsSet(field) == field.tag = "text"

\* C29: in every snapshot of either script, on every OS family and for every
\* combination of probe outcomes, antivirusName is set (present and not null)
\* iff antivirusInstalled is true, and diskEncryptionMethod is set iff
\* diskEncryptionEnabled is true
C29_OptionalFieldsFollowFlags ==
    system_data.set =>
       /\ IsSet(system_data.antivirus.antivirusName)
             <=> system_data.antivirus.antivirusInstalled
       /\ IsSet(system_data.encryption.diskEncryptionMethod)
             <=> system_data.encryption.diskEncryptionEnabled

\* a snapshot of sentinel_agent with an antivirus found and no encryption:
\* one name set, one method None
C29_Witness ==
    /\ system_data.set
    /\ call.script = "sentinel"
    /\ system = "linux"
    /\ system_data.antivirus.antivirusName = Text("Sophos")
    /\ system_data.encryption.diskEncryptionMethod = Null
    /\ ~system_data.encryption.diskEncryptionEnabled

\* the same of arica_toucan_agent, where the method key is absent
C29_WitnessKeyAbsent ==
    /\ system_data.set
    /\ call.script = "arica"
    /\ system = "windows"
    /\ system_data.antivirus.antivirusName = Missing
    /\ system_data.encryption.diskEncryptionMethod = Text("BitLocker")

(***************************************************************************)
(* An account-database line whose uid is not an integer                    *)
(***************************************************************************)
\* the database was read and one of its lines has seven fields and a uid that
\* is not an integer
BadUidMet ==
    /\ PasswdRead
    /\ \E i \in 1..Len(host.passwd.out) : BadUidLine(host.passwd.out[i])

\* the accounts accepted from the lines before the first such line
AcceptedBeforeBadUid == AccountsOfLines(LinesRead(host.passwd.out))

\* C30: on macOS and Linux, a database line of at least 7 fields whose uid is
\* not an integer ends the reading: the accounts accepted from the lines before
\* it are kept, no account of a later line is added, and the current-user
\* fallback is applied only if no account had been accepted before that line
C30_BadUidStopsReading ==
    BadUidMet =>
       IF AcceptedBeforeBadUid # <<>>
       THEN /\ ReturnedNamesAndRoles = AcceptedBeforeBadUid
            /\ \A k \in 1..Len(ReturnedAccounts) :
                  ~IsCurrentUserFallback(ReturnedAccounts[k])
       ELSE /\ Len(ReturnedAccounts) = 1
            /\ IsCurrentUserFallback(ReturnedAccounts[1])

\* the first line has a uid that is not an integer and the second line is
\* that of an ordinary account, which is not listed: the result is the
\* current-user entry
C30_Witness ==
    /\ BadUidMet
    /\ Len(host.passwd.out) = 2
    /\ BadUidLine(host.passwd.out[1])
    /\ IncludedLine(host.passwd.out[2])
    /\ Len(ReturnedAccounts) = 1
    /\ IsCurrentUserFallback(ReturnedAccounts[1])

\* the account of the first line is kept when the second line ends the reading
C30_WitnessKept ==
    /\ BadUidMet
    /\ IncludedLine(host.passwd.out[1])
    /\ BadUidLine(host.passwd.out[2])
    /\ Len(ReturnedAccounts) = 1
    /\ ReturnedAccounts[1].lastLogin.tag # "time"

=============================================================================
